---- MODULE Spec2Model ----
(***************************************************************************)
(* Model of the bidask arbitrage core: the rate graph (TokenGraph), the    *)
(* price aggregator's pairwise scan and serialized pair fetches, the       *)
(* opportunity detector (ArbitrageDetector), the risk gate (RiskManager),  *)
(* the trade executor (TradeExecutor) and the orchestrator                 *)
(* (SolanaArbitrageBot) with its scan loop and opportunity handler.        *)
(*                                                                         *)
(* Numbers: the program computes in IEEE doubles; the model computes in    *)
(* exact rationals [n, d] in lowest terms (d > 0), so that every           *)
(* expression of the source is evaluated operation by operation.           *)
(***************************************************************************)
EXTENDS Integers, Sequences, FiniteSets, TLC

VARIABLES
    adjList,                 \* TokenGraph.adjList: token -> sequence of edges
    opportunities,           \* ArbitrageDetector.opportunities (a Map, in insertion order)
    opportunityHistory,      \* ArbitrageDetector.opportunityHistory
    onOpportunityCallbacks,  \* ArbitrageDetector.onOpportunityCallbacks
    now,                     \* the clock read by Date.now()
    nextId,                  \* the next fresh id uuidv4() hands out
    last,                    \* the last operation: its name, arguments, result and,
                             \* for a scan, the quotes it fetched and the observer
                             \* invocations it made
    limits,                  \* RiskManager.limits
    dailyPnL,                \* RiskManager.dailyPnL
    dailyStartTime,          \* RiskManager.dailyStartTime
    tradeCount,              \* RiskManager.tradeCount
    failedTrades,            \* RiskManager.failedTrades
    opportunity,             \* the ArbitrageOpportunity object the caller hands to
                             \* the RiskManager
    walletBalanceSol,        \* the caller's wallet balance
    executor,                \* TradeExecutor: its counters, configuration and wallet
    executeCalls,            \* the execute() calls: where each one stands, what it
                             \* sent and what it returned
    bot,                     \* SolanaArbitrageBot: its flags, timer and counters
    scanPasses,              \* the passes of the scan loop's scanTokens closure
    handleCalls,             \* the handleOpportunity() calls: where each one
                             \* stands and the calls it has made
    fetch,                   \* a getAllPairQuotes() call: where it stands, the
                             \* venue requests in flight and the quotes so far
    scanCall                 \* a scanTokens() call: its batches and where each
                             \* of its scanToken passes stands

riskVars == <<limits, dailyPnL, dailyStartTime, tradeCount, failedTrades,
              opportunity, walletBalanceSol>>

execVars == <<executor, executeCalls>>

botVars == <<bot, scanPasses, handleCalls>>

aggregatorVars == <<fetch>>

scanVars == <<scanCall>>

vars == <<adjList, opportunities, opportunityHistory, onOpportunityCallbacks,
          now, nextId, last, riskVars, execVars, botVars, aggregatorVars, scanVars>>

detectorVars == <<opportunities, opportunityHistory, onOpportunityCallbacks,
                  now, nextId>>

-----------------------------------------------------------------------------
(* Exact rational arithmetic *)

Abs(x) == IF x < 0 THEN -x ELSE x

RECURSIVE GCD(_, _)
GCD(a, b) == IF b = 0 THEN a ELSE GCD(b, a % b)

Rat(n, d) == LET g == GCD(Abs(n), d) IN [n |-> n \div g, d |-> d \div g]

R(i) == [n |-> i, d |-> 1]

RAdd(a, b) == Rat(a.n * b.d + b.n * a.d, a.d * b.d)
RSub(a, b) == Rat(a.n * b.d - b.n * a.d, a.d * b.d)
RMul(a, b) == Rat(a.n * b.n, a.d * b.d)
\* a / b for b # 0
RDiv(a, b) == IF b.n > 0 THEN Rat(a.n * b.d, a.d * b.n)
                         ELSE Rat(-(a.n * b.d), a.d * (-b.n))
RLt(a, b) == a.n * b.d < b.n * a.d
RLe(a, b) == a.n * b.d <= b.n * a.d

-----------------------------------------------------------------------------
(* Bounds and input sets *)

\* total number of edges the graph may hold in the graph-only specification
MaxEdges == 5

\* scans start only while fewer than MaxOpps ids have been handed out
MaxOpps == 2

\* number of observers that may be registered
MaxCallbacks == 2

\* largest limit getHistory is called with
MaxLimit == 2

\* the instants the clock is read at: a detection at 0 is 4000 ms old, just
\* expired, and 1 ms past its expiry
Instants == {0, 4000, 5000, 5001}

SOL == "SOL"

\* config TOKENS, cut down to two assets
KnownTokens == {SOL, "USDC"}

\* the assets updateEdge is called with: the known ones and one the
\* constructor has not seen
Assets == KnownTokens \cup {"WIF"}

\* the (from, to, venue) keys direct updateEdge calls use: the cycle
\* SOL -> USDC -> WIF -> SOL with two venues on its first and last leg, a
\* direct way back USDC -> SOL, and a self-loop
EdgeKeys == {<<SOL, "USDC", "jupiter">>, <<SOL, "USDC", "raydium">>,
             <<"USDC", "WIF", "jupiter">>,
             <<"WIF", SOL, "jupiter">>, <<"WIF", SOL, "raydium">>,
             <<"USDC", SOL, "jupiter">>, <<SOL, SOL, "jupiter">>}

\* edge rates of direct updateEdge calls
GraphRates == {R(1), R(2)}

\* PriceQuote, without the amounts, fees, route and capture time
MkQuote(dex, inputMint, outputMint, price, priceImpact, liquidity) ==
    [dex |-> dex, inputMint |-> inputMint, outputMint |-> outputMint,
     price |-> price, priceImpact |-> priceImpact, liquidity |-> liquidity]

-----------------------------------------------------------------------------
(* TokenGraph *)

\* constructor: a node for every known token
NewGraph == [t \in KnownTokens |-> <<>>]

getNeighbors(adj, token) == IF token \in DOMAIN adj THEN adj[token] ELSE <<>>

\* edges.findIndex(e => e.to === to && e.dex === dex); 0 stands for -1
findIndex(edges, to, dex) ==
    IF \E i \in 1..Len(edges) : edges[i].to = to /\ edges[i].dex = dex
    THEN CHOOSE i \in 1..Len(edges) :
            /\ edges[i].to = to /\ edges[i].dex = dex
            /\ \A j \in 1..(i - 1) : ~(edges[j].to = to /\ edges[j].dex = dex)
    ELSE 0

\* a mutant of updateEdge: always pushes
updateEdge_push(adj, from, to, dex, price, quote) ==
    LET edges == getNeighbors(adj, from)
        e == [to |-> to, dex |-> dex, price |-> price, quote |-> quote]
    IN  [t \in DOMAIN adj \cup {from} |->
            IF t = from THEN Append(edges, e) ELSE adj[t]]

updateEdge(adj, from, to, dex, price, quote) ==
    LET edges == getNeighbors(adj, from)
        existingIndex == findIndex(edges, to, dex)
        e == [to |-> to, dex |-> dex, price |-> price, quote |-> quote]
    IN  [t \in DOMAIN adj \cup {from} |->
            IF t = from
            THEN IF existingIndex >= 1
                 THEN [edges EXCEPT ![existingIndex] = e]
                 ELSE Append(edges, e)
            ELSE adj[t]]

\* a mutant of the profit test: >= instead of >
isProfit_ge(compositeRate) == RLe(R(1), compositeRate)

\* compositeRate > 1.000
isProfit(compositeRate) == RLt(R(1), compositeRate)

\* if (e2.to === startToken) continue
skipE2(e2, startToken) == e2.to = startToken

\* the innermost loop of findTriangles, from edges3[i] on
RECURSIVE forE3(_, _, _, _, _, _)
forE3(adj, startToken, e1, e2, i, acc) ==
    LET edges3 == getNeighbors(adj, e2.to) IN
    IF i > Len(edges3) THEN acc
    ELSE LET e3 == edges3[i]
             compositeRate == RMul(RMul(e1.price, e2.price), e3.price)
         IN  IF e3.to # startToken
             THEN forE3(adj, startToken, e1, e2, i + 1, acc)
             ELSE IF isProfit(compositeRate)
             THEN forE3(adj, startToken, e1, e2, i + 1,
                        Append(acc, [path |-> <<e1, e2, e3>>,
                                     profitBps |-> RMul(RSub(compositeRate, R(1)), R(10000))]))
             ELSE forE3(adj, startToken, e1, e2, i + 1, acc)

\* the middle loop, from edges2[j] on
RECURSIVE forE2(_, _, _, _, _)
forE2(adj, startToken, e1, j, acc) ==
    LET edges2 == getNeighbors(adj, e1.to) IN
    IF j > Len(edges2) THEN acc
    ELSE LET e2 == edges2[j]
         IN  IF skipE2(e2, startToken)
             THEN forE2(adj, startToken, e1, j + 1, acc)
             ELSE forE2(adj, startToken, e1, j + 1,
                        forE3(adj, startToken, e1, e2, 1, acc))

\* the outer loop, from edges1[i] on
RECURSIVE forE1(_, _, _, _)
forE1(adj, startToken, i, acc) ==
    LET edges1 == getNeighbors(adj, startToken) IN
    IF i > Len(edges1) THEN acc
    ELSE forE1(adj, startToken, i + 1, forE2(adj, startToken, edges1[i], 1, acc))

findTriangles(adj, startToken) == forE1(adj, startToken, 1, <<>>)

RECURSIVE SumLen(_, _)
SumLen(adj, S) ==
    IF S = {} THEN 0
    ELSE LET t == CHOOSE x \in S : TRUE IN Len(adj[t]) + SumLen(adj, S \ {t})

\* number of edges stored in the graph
EdgeCount(adj) == SumLen(adj, DOMAIN adj)

-----------------------------------------------------------------------------
(* PriceAggregator *)

\* a venue whose fetch threw or returned null
Null == [null |-> TRUE]

\* a venue request that is rejected, where Null is a request answered with
\* no quote
Failed == [failed |-> TRUE]

\* getQuote(...).catch(() => null): a rejected request counts as no quote
caught(answer) == IF answer = Failed THEN Null ELSE answer

\* a mutant of the fan-out: the requests are joined without a catch of their
\* own, so that one rejection rejects the join and no quote is returned
getQuotesForPair_joined(resp) ==
    IF Failed \in {resp.jupiter, resp.raydium, resp.orca} THEN <<>>
    ELSE SelectSeq(<<resp.jupiter, resp.raydium, resp.orca>>, LAMBDA q : q # Null)

\* the venues' answers jupiterQuote, raydiumQuote, orcaQuote that are not null,
\* in this order
getQuotesForPair(resp) ==
    SelectSeq(<<caught(resp.jupiter), caught(resp.raydium), caught(resp.orca)>>,
              LAMBDA q : q # Null)

\* a mutant of the spread: the buy price is not inverted
spreadBpsOf_direct(buyQuote, sellQuote) ==
    RMul(RDiv(RSub(sellQuote.price, buyQuote.price), buyQuote.price), R(10000))

\* spread = (sellQuote.price - (1 / buyQuote.price)) / (1 / buyQuote.price);
\* spreadBps = spread * 10000
spreadBpsOf(buyQuote, sellQuote) ==
    RMul(RDiv(RSub(sellQuote.price, RDiv(R(1), buyQuote.price)),
              RDiv(R(1), buyQuote.price)),
         R(10000))

\* the nested loop over buyQuotes and sellQuotes, as the sequence of the
\* candidates it pushes
crossPairs(buyQuotes, sellQuotes) ==
    LET nb == Len(buyQuotes)
        ns == Len(sellQuotes)
        all == [n \in 1..(nb * ns) |->
                  LET buyQuote == buyQuotes[((n - 1) \div ns) + 1]
                      sellQuote == sellQuotes[((n - 1) % ns) + 1]
                  IN  [buyDex |-> buyQuote.dex, sellDex |-> sellQuote.dex,
                       buyQuote |-> buyQuote, sellQuote |-> sellQuote,
                       spreadBps |-> spreadBpsOf(buyQuote, sellQuote)]]
    IN  SelectSeq(all, LAMBDA c : c.buyDex # c.sellDex /\ RLt(R(0), c.spreadBps))

\* Array.prototype.sort with (a, b) => b.spreadBps - a.spreadBps: a stable
\* sort by falling spread, here by insertion
RECURSIVE insertBySpread(_, _)
insertBySpread(sorted, c) ==
    IF sorted = <<>> THEN <<c>>
    ELSE IF RLt(Head(sorted).spreadBps, c.spreadBps)
         THEN <<c>> \o sorted
         ELSE <<Head(sorted)>> \o insertBySpread(Tail(sorted), c)

RECURSIVE sortBySpread(_, _)
sortBySpread(cands, acc) ==
    IF cands = <<>> THEN acc
    ELSE sortBySpread(Tail(cands), insertBySpread(acc, Head(cands)))

getCrossExchangeQuotes(buyResp, sellResp) ==
    LET buyQuotes == getQuotesForPair(buyResp)
        sellQuotes == getQuotesForPair(sellResp)
    IN  [buyQuotes |-> buyQuotes, sellQuotes |-> sellQuotes,
         opportunities |-> sortBySpread(crossPairs(buyQuotes, sellQuotes), <<>>)]

\* getAllPairQuotes: the quotes of every ordered pair of tokens, pair after pair
RECURSIVE getAllPairQuotes(_, _, _)
getAllPairQuotes(tokens, n, resp) ==
    LET k == Len(tokens) IN
    IF n > k * k THEN <<>>
    ELSE LET i == ((n - 1) \div k) + 1
             j == ((n - 1) % k) + 1
         IN  IF i = j THEN getAllPairQuotes(tokens, n + 1, resp)
             ELSE getQuotesForPair(resp[<<tokens[i], tokens[j]>>])
                    \o getAllPairQuotes(tokens, n + 1, resp)

-----------------------------------------------------------------------------
(* ArbitrageDetector *)

\* the configuration defaults
minProfitBps == 50
maxSlippageBps == 100
minLiquidityUsd == 10000
opportunityTtlMs == 5000

\* the observers that throw when called
Throws(cb) == cb = "bad"

passesFilters(buyQuote, sellQuote, spreadBps) ==
    IF RLt(spreadBps, R(minProfitBps)) THEN FALSE
    ELSE IF \/ RLt(Rat(maxSlippageBps, 100), buyQuote.priceImpact)
            \/ RLt(Rat(maxSlippageBps, 100), sellQuote.priceImpact) THEN FALSE
    ELSE IF \/ (RLt(R(0), buyQuote.liquidity) /\ RLt(buyQuote.liquidity, R(minLiquidityUsd)))
            \/ (RLt(R(0), sellQuote.liquidity) /\ RLt(sellQuote.liquidity, R(minLiquidityUsd)))
         THEN FALSE
    ELSE TRUE

\* a mutant of the per-observer try/catch: the exception leaves the loop
callOutcome_uncaught(cb) == IF Throws(cb) THEN "thrown" ELSE "returned"

\* try { callback(opp); } catch (e) { logger.error(...) }
callOutcome(cb) == IF Throws(cb) THEN "caught" ELSE "returned"

\* notifyCallbacks from callback i on; calls lists the invocations made
RECURSIVE notifyCallbacks(_, _, _, _)
notifyCallbacks(cbs, i, opp, calls) ==
    IF i > Len(cbs) THEN [calls |-> calls, thrown |-> FALSE]
    ELSE LET made == Append(calls, [cb |-> i, id |-> opp.id]) IN
         IF callOutcome(cbs[i]) = "thrown"
         THEN [calls |-> made, thrown |-> TRUE]
         ELSE notifyCallbacks(cbs, i + 1, opp, made)

\* Map.set(id, opp): a new key goes last, an old one keeps its place
mapSet(m, opp) ==
    IF \E i \in 1..Len(m) : m[i].id = opp.id
    THEN [i \in 1..Len(m) |-> IF m[i].id = opp.id THEN opp ELSE m[i]]
    ELSE Append(m, opp)

\* found.push, opportunities.set, opportunityHistory.push, notifyCallbacks
emit(st, opp, cbs) ==
    LET n == notifyCallbacks(cbs, 1, opp, <<>>) IN
    [opps |-> mapSet(st.opps, opp),
     hist |-> Append(st.hist, opp),
     found |-> Append(st.found, opp),
     calls |-> st.calls \o n.calls,
     nextId |-> st.nextId + 1,
     thrown |-> n.thrown]

\* a mutant of the net profit: the gas cost is not subtracted
netProfitUsd_gross(c, spreadBps, gasEstimate) ==
    RMul(RDiv(spreadBps, R(10000)), RMul(c.amount, c.solPrice))

\* grossProfitUsd - gasCostUsd, for a gas estimate in SOL: 0.001 in
\* scanToken, 0.003 in scanGraph
netProfitUsd(c, spreadBps, gasEstimate) ==
    LET gasCostUsd == RMul(gasEstimate, c.solPrice)
        tradeSizeUsd == RMul(c.amount, c.solPrice)
        grossProfitUsd == RMul(RDiv(spreadBps, R(10000)), tradeSizeUsd)
    IN  RSub(grossProfitUsd, gasCostUsd)

\* the Opportunity scanToken builds from a candidate
pairOpportunity(c, opp, id) ==
    LET gasEstimate == Rat(1, 1000)
        gasCostUsd == RMul(gasEstimate, c.solPrice)
        tradeSizeUsd == RMul(c.amount, c.solPrice)
    IN  [id |-> id, tokenMint |-> c.tokenMint, isTriangular |-> FALSE, path |-> <<>>,
         buyDex |-> opp.buyDex, buyPrice |-> RDiv(R(1), opp.buyQuote.price),
         buyQuote |-> opp.buyQuote,
         sellDex |-> opp.sellDex, sellPrice |-> opp.sellQuote.price,
         sellQuote |-> opp.sellQuote,
         spreadBps |-> opp.spreadBps,
         estimatedProfitBps |->
            RSub(opp.spreadBps, RMul(RDiv(gasCostUsd, tradeSizeUsd), R(10000))),
         estimatedProfitUsd |-> netProfitUsd(c, opp.spreadBps, gasEstimate),
         tradeSize |-> c.amount, tradeSizeUsd |-> tradeSizeUsd,
         detectedAt |-> c.now, expiresAt |-> c.now + opportunityTtlMs]

\* a mutant of scanToken's loop: it stops after the first emission
RECURSIVE scanTokenLoop_first(_, _, _, _)
scanTokenLoop_first(cands, i, c, st) ==
    IF i > Len(cands) \/ st.thrown \/ st.found # <<>> THEN st
    ELSE LET opp == cands[i] IN
         IF ~passesFilters(opp.buyQuote, opp.sellQuote, opp.spreadBps)
         THEN scanTokenLoop_first(cands, i + 1, c, st)
         ELSE IF RLe(netProfitUsd(c, opp.spreadBps, Rat(1, 1000)), R(0))
         THEN scanTokenLoop_first(cands, i + 1, c, st)
         ELSE scanTokenLoop_first(cands, i + 1, c,
                                  emit(st, pairOpportunity(c, opp, st.nextId), c.cbs))

\* scanToken's loop over the candidates, from candidate i on; an exception
\* leaves it for the catch around the scan
RECURSIVE scanTokenLoop(_, _, _, _)
scanTokenLoop(cands, i, c, st) ==
    IF i > Len(cands) \/ st.thrown THEN st
    ELSE LET opp == cands[i] IN
         IF ~passesFilters(opp.buyQuote, opp.sellQuote, opp.spreadBps)
         THEN scanTokenLoop(cands, i + 1, c, st)
         ELSE IF RLe(netProfitUsd(c, opp.spreadBps, Rat(1, 1000)), R(0))
         THEN scanTokenLoop(cands, i + 1, c, st)
         ELSE scanTokenLoop(cands, i + 1, c,
                            emit(st, pairOpportunity(c, opp, st.nextId), c.cbs))

\* a mutant of triOpportunity: the legs keep the empty 'from' of the map
triOpportunity_unfixed(c, tri, id) ==
    LET tradeSizeUsd == RMul(c.amount, c.solPrice)
    IN  [id |-> id, tokenMint |-> SOL, isTriangular |-> TRUE,
         path |-> [k \in 1..3 |-> [from |-> "", to |-> tri.path[k].to,
                                   dex |-> tri.path[k].dex, quote |-> tri.path[k].quote]],
         buyDex |-> tri.path[1].dex, buyPrice |-> tri.path[1].price,
         buyQuote |-> tri.path[1].quote,
         sellDex |-> tri.path[3].dex, sellPrice |-> tri.path[3].price,
         sellQuote |-> tri.path[3].quote,
         spreadBps |-> tri.profitBps,
         estimatedProfitBps |-> tri.profitBps,
         estimatedProfitUsd |-> netProfitUsd(c, tri.profitBps, Rat(3, 1000)),
         tradeSize |-> c.amount, tradeSizeUsd |-> tradeSizeUsd,
         detectedAt |-> c.now, expiresAt |-> c.now + opportunityTtlMs]

\* the Opportunity scanGraph builds from a triangle
triOpportunity(c, tri, id) ==
    LET tradeSizeUsd == RMul(c.amount, c.solPrice)
        froms == <<SOL, tri.path[1].to, tri.path[2].to>>
    IN  [id |-> id, tokenMint |-> SOL, isTriangular |-> TRUE,
         path |-> [k \in 1..3 |-> [from |-> froms[k], to |-> tri.path[k].to,
                                   dex |-> tri.path[k].dex, quote |-> tri.path[k].quote]],
         buyDex |-> tri.path[1].dex, buyPrice |-> tri.path[1].price,
         buyQuote |-> tri.path[1].quote,
         sellDex |-> tri.path[3].dex, sellPrice |-> tri.path[3].price,
         sellQuote |-> tri.path[3].quote,
         spreadBps |-> tri.profitBps,
         estimatedProfitBps |-> tri.profitBps,
         estimatedProfitUsd |-> netProfitUsd(c, tri.profitBps, Rat(3, 1000)),
         tradeSize |-> c.amount, tradeSizeUsd |-> tradeSizeUsd,
         detectedAt |-> c.now, expiresAt |-> c.now + opportunityTtlMs]

\* scanGraph's loop over the triangles, from triangle i on
RECURSIVE scanGraphLoop(_, _, _, _)
scanGraphLoop(triangles, i, c, st) ==
    IF i > Len(triangles) \/ st.thrown THEN st
    ELSE LET tri == triangles[i] IN
         IF RLt(tri.profitBps, R(minProfitBps))
         THEN scanGraphLoop(triangles, i + 1, c, st)
         ELSE IF RLe(netProfitUsd(c, tri.profitBps, Rat(3, 1000)), R(0))
         THEN scanGraphLoop(triangles, i + 1, c, st)
         ELSE scanGraphLoop(triangles, i + 1, c,
                            emit(st, triOpportunity(c, tri, st.nextId), c.cbs))

\* for (const quote of quotes) this.graph.updateEdge(...)
RECURSIVE updateEdges(_, _, _)
updateEdges(adj, quotes, i) ==
    IF i > Len(quotes) THEN adj
    ELSE updateEdges(updateEdge(adj, quotes[i].inputMint, quotes[i].outputMint,
                                quotes[i].dex, quotes[i].price, quotes[i]),
                     quotes, i + 1)

\* a mutant of the expiry test: >= instead of >
isActive_ge(opp, t) == opp.expiresAt >= t

\* opp.expiresAt > now
isActive(opp, t) == opp.expiresAt > t

\* the entries getActiveOpportunities keeps and returns
activeOf(opps, t) == SelectSeq(opps, LAMBDA o : isActive(o, t))

\* Array.prototype.slice(start), start an integer
slice(a, start) ==
    LET len == Len(a)
        k == IF start < 0 THEN (IF len + start > 0 THEN len + start ELSE 0)
                          ELSE (IF start < len THEN start ELSE len)
    IN  SubSeq(a, k + 1, len)

\* this.opportunityHistory.slice(-limit)
getHistory(hist, limit) == slice(hist, -limit)

\* const batchSize = 3
batchSize == 3

\* no scanTokens() call has been made
NoScan == [pc |-> "idle", tokens |-> <<>>, passes |-> <<>>, ret |-> <<>>]

\* batch.map(token => this.scanToken(token, ...)): the scanToken passes of
\* the batch that starts at token i, each up to its first await
startBatch(s, i) ==
    LET n == Len(s.tokens)
        j == IF i + batchSize - 1 < n THEN i + batchSize - 1 ELSE n
    IN  [s EXCEPT !.pc = "batch",
                  !.passes = @ \o [k \in 1..(j - i + 1) |->
                                      [token |-> s.tokens[i + k - 1], pc |-> "quotes",
                                       candidates |-> <<>>, found |-> <<>>,
                                       beside |-> {}]]]

\* Array.prototype.sort with (a, b) => b.estimatedProfitUsd - a.estimatedProfitUsd,
\* a stable sort by falling profit, here by insertion
RECURSIVE insertByProfit(_, _)
insertByProfit(sorted, o) ==
    IF sorted = <<>> THEN <<o>>
    ELSE IF RLt(Head(sorted).estimatedProfitUsd, o.estimatedProfitUsd)
         THEN <<o>> \o sorted
         ELSE <<Head(sorted)>> \o insertByProfit(Tail(sorted), o)

RECURSIVE sortByProfit(_, _)
sortByProfit(opps, acc) ==
    IF opps = <<>> THEN acc
    ELSE sortByProfit(Tail(opps), insertByProfit(acc, Head(opps)))

\* allOpportunities.push(...opportunities) for every pass, in the tokens' order
RECURSIVE allOpportunities(_, _)
allOpportunities(passes, k) ==
    IF k > Len(passes) THEN <<>>
    ELSE passes[k].found \o allOpportunities(passes, k + 1)

\* await Promise.all(...): once every pass of the batch has returned, the
\* next batch starts, or the results are sorted and returned
joinBatch(s) ==
    IF \E k \in 1..Len(s.passes) : s.passes[k].pc # "done" THEN s
    ELSE IF Len(s.passes) < Len(s.tokens) THEN startBatch(s, Len(s.passes) + 1)
    ELSE [s EXCEPT !.pc = "done",
                   !.ret = sortByProfit(allOpportunities(s.passes, 1), <<>>)]

\* scanTokens(tokenMints), up to its first await
scanTokens(tokenMints) ==
    joinBatch([NoScan EXCEPT !.pc = "batch", !.tokens = tokenMints])

\* the passes of the call that have not returned
InProgressPasses(s) == {k \in 1..Len(s.passes) : s.passes[k].pc # "done"}

-----------------------------------------------------------------------------
(* RiskManager *)

\* the limits of a RiskManager constructed without arguments
maxTradeSizeSol == 1
maxPriceImpactBps == 200
maxPriorityFeeLamports == 100000
maxPositionPercent == 50
dailyLossLimitUsd == 50

DefaultLimits ==
    [maxTradeSizeSol |-> R(maxTradeSizeSol),
     maxSlippageBps |-> R(maxSlippageBps),
     minLiquidityUsd |-> R(minLiquidityUsd),
     maxPriceImpactBps |-> R(maxPriceImpactBps),
     minProfitBps |-> R(minProfitBps),
     maxGasLamports |-> R(maxPriorityFeeLamports),
     maxPositionPercent |-> R(maxPositionPercent),
     dailyLossLimitUsd |-> R(dailyLossLimitUsd)]

\* const dayMs = 24 * 60 * 60 * 1000
dayMs == 24 * 60 * 60 * 1000

\* the smallest trade size, 0.01
dustFloor == Rat(1, 100)

RNeg(a) == [n |-> -(a.n), d |-> a.d]
RAbs(a) == [n |-> Abs(a.n), d |-> a.d]
RMin(a, b) == IF RLt(b, a) THEN b ELSE a
RMax(a, b) == IF RLt(a, b) THEN b ELSE a

RECURSIVE Pow10(_)
Pow10(k) == IF k = 0 THEN 1 ELSE 10 * Pow10(k - 1)

\* Number.prototype.toFixed(digits) of x >= 0, as the number it prints: the
\* multiple of 10^-digits nearest to x, the larger one of two
toFixed(x, digits) ==
    Rat((2 * x.n * Pow10(digits) + x.d) \div (2 * x.d), Pow10(digits))

\* the ledger of a RiskManager
Ledger(pnl, start, count, failed) ==
    [dailyPnL |-> pnl, dailyStartTime |-> start, tradeCount |-> count,
     failedTrades |-> failed]

\* a mutant of the reset test: a day is over at exactly 24h
dayOver_ge(t, start) == t - start >= dayMs

\* now - this.dailyStartTime > dayMs
dayOver(t, start) == t - start > dayMs

checkDailyReset(ledger, t) ==
    IF dayOver(t, ledger.dailyStartTime)
    THEN Ledger(R(0), t, 0, 0)
    ELSE ledger

\* a mutant of the liquidity test: an unknown liquidity (0) counts as thin
thinPool_unknown(liquidity, lim) == RLt(liquidity, lim.minLiquidityUsd)

\* quote.liquidity > 0 && quote.liquidity < this.limits.minLiquidityUsd
thinPool(liquidity, lim) ==
    RLt(R(0), liquidity) /\ RLt(liquidity, lim.minLiquidityUsd)

\* a mutant of the clamp: the size is left as it is
clampTo_keep(size, bound) == size

\* if (adjustedSize > bound) adjustedSize = bound
clampTo(size, bound) == IF RLt(bound, size) THEN bound ELSE size

\* a mutant of the size clamp: the clamped size is written to the Opportunity
argumentAfter_written(opp, adjustedSize) == [opp EXCEPT !.tradeSize = adjustedSize]

\* let adjustedSize = opportunity.tradeSize copies the number: no statement
\* of checkTrade or calculateOptimalSize assigns to the Opportunity
argumentAfter(opp, adjustedSize) == opp

\* walletBalanceSol * (this.limits.maxPositionPercent / 100)
maxByBalance(lim, wallet) == RMul(wallet, RDiv(lim.maxPositionPercent, R(100)))

\* quote.priceImpact * 100, a percentage as basis points
impactBps(quote) == RMul(quote.priceImpact, R(100))

\* checkTrade(opportunity, walletBalanceSol) at time t: what it returns, the
\* ledger it leaves, and the Opportunity and the limits as they are afterwards
checkTrade(ledger, lim, opp, wallet, t) ==
    LET l == checkDailyReset(ledger, t)
        reject(reason, warnings) ==
            [passed |-> FALSE, reason |-> reason, warnings |-> warnings]
        capped == clampTo(opp.tradeSize, lim.maxTradeSizeSol)
        w1 == IF RLt(lim.maxTradeSizeSol, opp.tradeSize)
              THEN <<"Trade size capped to max">> ELSE <<>>
        adjustedSize == clampTo(capped, maxByBalance(lim, wallet))
        w2 == IF RLt(maxByBalance(lim, wallet), capped)
              THEN Append(w1, "Trade size reduced to percent of balance") ELSE w1
        buyImpact == impactBps(opp.buyQuote)
        sellImpact == impactBps(opp.sellQuote)
        totalSlippage == RAdd(buyImpact, sellImpact)
        w3 == IF RLt(RDiv(lim.maxSlippageBps, R(2)), totalSlippage)
              THEN Append(w2, "Notable slippage") ELSE w2
        \* expectedGasCost = 0.002
        w4 == IF RLt(RMul(opp.tradeSize, RDiv(opp.spreadBps, R(10000))),
                     RMul(Rat(2, 1000), R(2)))
              THEN Append(w3, "Profit margin tight relative to gas costs") ELSE w3
        age == t - opp.detectedAt
        w5 == IF age > 2000 THEN Append(w4, "Opportunity may be stale") ELSE w4
        ret ==
            IF RLt(l.dailyPnL, RNeg(lim.dailyLossLimitUsd))
            THEN reject([text |-> "Daily loss limit reached",
                         value |-> toFixed(RAbs(l.dailyPnL), 2)], <<>>)
            ELSE IF RLt(opp.spreadBps, lim.minProfitBps)
            THEN reject([text |-> "Spread below minimum",
                         value |-> toFixed(opp.spreadBps, 2)], <<>>)
            ELSE IF RLt(adjustedSize, dustFloor)
            THEN reject([text |-> "Trade size too small after adjustments"], w2)
            ELSE IF RLt(lim.maxPriceImpactBps, buyImpact)
            THEN reject([text |-> "Buy price impact exceeds limit",
                         value |-> toFixed(buyImpact, 0)], w2)
            ELSE IF RLt(lim.maxPriceImpactBps, sellImpact)
            THEN reject([text |-> "Sell price impact exceeds limit",
                         value |-> toFixed(sellImpact, 0)], w2)
            ELSE IF RLt(lim.maxSlippageBps, totalSlippage)
            THEN reject([text |-> "Combined slippage too high",
                         value |-> toFixed(totalSlippage, 0)], w2)
            ELSE IF thinPool(opp.buyQuote.liquidity, lim)
            THEN reject([text |-> "Buy pool liquidity below minimum",
                         value |-> toFixed(opp.buyQuote.liquidity, 0)], w3)
            ELSE IF thinPool(opp.sellQuote.liquidity, lim)
            THEN reject([text |-> "Sell pool liquidity below minimum",
                         value |-> toFixed(opp.sellQuote.liquidity, 0)], w3)
            ELSE [passed |-> TRUE, adjustedSize |-> adjustedSize, warnings |-> w5]
    IN  [ret |-> ret, ledger |-> l,
         opportunity |-> argumentAfter(opp, adjustedSize), limits |-> lim]

\* a mutant of the impact scaling: every average above 0.25 halves the size
impactFactor_half(avgImpact) ==
    IF RLt(Rat(1, 4), avgImpact) THEN Rat(1, 2) ELSE R(1)

\* size *= 0.5 above an average impact of 0.5, size *= 0.75 above 0.25
impactFactor(avgImpact) ==
    IF RLt(Rat(1, 2), avgImpact) THEN Rat(1, 2)
    ELSE IF RLt(Rat(1, 4), avgImpact) THEN Rat(3, 4)
    ELSE R(1)

\* a mutant of the margin scaling: a spread that is not marginal raises the size
marginFactor_raise(lim, spreadBps) ==
    IF RLt(spreadBps, RMul(lim.minProfitBps, Rat(3, 2))) THEN Rat(1, 2) ELSE Rat(3, 2)

\* size *= 0.5 when the spread is under 1.5 times the minimum profit
marginFactor(lim, spreadBps) ==
    IF RLt(spreadBps, RMul(lim.minProfitBps, Rat(3, 2))) THEN Rat(1, 2) ELSE R(1)

\* calculateOptimalSize(opportunity, walletBalanceSol): what it returns, and
\* the Opportunity and the limits as they are afterwards
calculateOptimalSize(lim, opp, wallet) ==
    LET size == RMin(RMin(opp.tradeSize, lim.maxTradeSizeSol),
                     maxByBalance(lim, wallet))
        avgImpact == RDiv(RAdd(opp.buyQuote.priceImpact, opp.sellQuote.priceImpact),
                          R(2))
        scaled == RMul(RMul(size, impactFactor(avgImpact)),
                       marginFactor(lim, opp.spreadBps))
    IN  [ret |-> RMax(scaled, dustFloor),
         opportunity |-> argumentAfter(opp, scaled), limits |-> lim]

\* a mutant of recordTrade: the amount is added whether the trade succeeded or not
recordTrade_always(ledger, profitUsd, success) ==
    [ledger EXCEPT !.tradeCount = @ + 1,
                   !.dailyPnL = RAdd(@, profitUsd),
                   !.failedTrades = IF success THEN @ ELSE @ + 1]

recordTrade(ledger, profitUsd, success) ==
    IF success
    THEN [ledger EXCEPT !.tradeCount = @ + 1, !.dailyPnL = RAdd(@, profitUsd)]
    ELSE [ledger EXCEPT !.tradeCount = @ + 1, !.failedTrades = @ + 1]

\* the RiskManager's ledger fields as one record
ledgerNow == Ledger(dailyPnL, dailyStartTime, tradeCount, failedTrades)

\* new RiskManager(): default limits, an empty ledger started at the clock;
\* no Opportunity has been handed over
NewRiskManager ==
    /\ limits = DefaultLimits
    /\ dailyPnL = R(0)
    /\ dailyStartTime = 0
    /\ tradeCount = 0
    /\ failedTrades = 0
    /\ opportunity = Null
    /\ walletBalanceSol = R(0)

-----------------------------------------------------------------------------
(* TradeExecutor *)

\* JITO_ENDPOINTS: the relay endpoints of each network, by their host's first label
JITO_ENDPOINTS ==
    [n \in {"mainnet-beta", "devnet"} |->
        IF n = "mainnet-beta"
        THEN <<"mainnet", "amsterdam", "frankfurt", "ny", "tokyo">>
        ELSE <<>>]

\* a TradeExecutor with its configuration and the wallet's keypair (Null
\* while the wallet is not initialised)
Executor(useJitoBundles, network, keypair) ==
    [executedTrades |-> 0, successfulTrades |-> 0, failedTrades |-> 0,
     useJitoBundles |-> useJitoBundles, network |-> network, keypair |-> keypair]

\* the wallet's keypair, and the signature of the transaction it signed
Keypair == [publicKey |-> "wallet"]
Signature == [signature |-> "transaction"]

\* an execute() call that has not reached its first await
NewCall(opp, t) ==
    [opportunity |-> opp, startTime |-> t, pc |-> "start", endpoint |-> 0,
     log |-> <<>>, transaction |-> <<>>, txHash |-> Null, outcome |-> Null]

\* const result = { success: false, opportunity, executedAt: startTime, duration: 0 }
baseResult(call) ==
    [success |-> FALSE, opportunity |-> call.opportunity,
     executedAt |-> call.startTime, duration |-> 0]

\* this.executedTrades++; result.duration = Date.now() - startTime; return result
finish(ex, call, result, t) ==
    [executor |-> [ex EXCEPT !.executedTrades = @ + 1],
     call |-> [call EXCEPT !.pc = "done", !.endpoint = 0,
                           !.outcome = [returned |-> [result EXCEPT
                                            !.duration = t - call.startTime]]]]

\* a mutant of the catch block: the error leaves execute()
catchBlock_rethrow(ex, call, message, t) ==
    [executor |-> ex,
     call |-> [call EXCEPT !.pc = "done", !.endpoint = 0,
                           !.outcome = [thrown |-> message]]]

\* catch (error): result.error = err.message; this.failedTrades++, and then
\* the statements after the try
catchBlock(ex, call, message, t) ==
    finish([ex EXCEPT !.failedTrades = @ + 1], call,
           [success |-> FALSE, opportunity |-> call.opportunity,
            executedAt |-> call.startTime, duration |-> 0, error |-> message], t)

\* a mutant of the signer check: execute() returns at once, as simulate() does
noKeypair_return(ex, call, t) ==
    [executor |-> ex,
     call |-> [call EXCEPT !.pc = "done",
                           !.outcome = [returned |->
                               [success |-> FALSE, opportunity |-> call.opportunity,
                                executedAt |-> call.startTime, duration |-> 0,
                                error |-> "Wallet not initialized"]]]]

\* if (!keypair) throw new Error('Wallet not initialized')
noKeypair(ex, call, t) == catchBlock(ex, call, "Wallet not initialized", t)

\* result.success = true, both hashes set, this.successfulTrades++, and then
\* the statements after the try
confirmedBlock(ex, call, t) ==
    finish([ex EXCEPT !.successfulTrades = @ + 1], call,
           [success |-> TRUE, opportunity |-> call.opportunity,
            executedAt |-> call.startTime, duration |-> 0,
            buyTxHash |-> call.txHash, sellTxHash |-> call.txHash], t)

\* this.config.useJitoBundles && this.globalConfig.network === 'mainnet-beta'
useRelay(ex) == ex.useJitoBundles /\ ex.network = "mainnet-beta"

\* a request sent to a relay endpoint or to the RPC node ("direct")
contact(call, to) == Append(call.log, to)

\* this.submitTransaction(transaction), up to its await
submitTransaction(call) ==
    [call EXCEPT !.pc = "direct", !.endpoint = 0, !.log = contact(call, "direct")]

\* axios.post(endpoints[i], ...), up to its await
postBundle(call, endpoints, i) ==
    [call EXCEPT !.pc = "relay", !.endpoint = i, !.log = contact(call, endpoints[i])]

\* submitJitoBundle, up to its first await
submitJitoBundle(ex, call) ==
    LET endpoints == JITO_ENDPOINTS[ex.network] IN
    IF Len(endpoints) = 0 THEN submitTransaction(call)
    ELSE postBundle(call, endpoints, 1)

\* a mutant of the relay's success test: every answer counts that is no
\* transport error
relayAccepted_any(answer) == answer # "error"

\* if (response.data.result): the answer carries a result field
relayAccepted(answer) == answer = "result"

\* execute(opportunity), up to its first await: the result is prepared, the
\* keypair is looked up, and buildAtomicTransaction is awaited
executeStart(ex, opp, t) ==
    LET call == NewCall(opp, t) IN
    IF ex.keypair = Null THEN noKeypair(ex, call, t)
    ELSE [executor |-> ex, call |-> [call EXCEPT !.pc = "build"]]

\* the instructions buildAtomicTransaction puts in the transaction: the two
\* compute budget instructions, and the relay's tip if (this.config.useJitoBundles)
buildAtomicTransaction(ex) ==
    <<"computeUnitLimit", "computeUnitPrice">>
        \o (IF ex.useJitoBundles THEN <<"jitoTip">> ELSE <<>>)

\* execute() from the end of buildAtomicTransaction (built: a transaction,
\* not null) up to the next await
afterBuild(ex, call, built, t) ==
    LET signed == [call EXCEPT !.transaction = buildAtomicTransaction(ex)] IN
    IF ~built THEN catchBlock(ex, call, "Failed to build transaction", t)
    ELSE IF useRelay(ex) THEN [executor |-> ex, call |-> submitJitoBundle(ex, signed)]
    ELSE [executor |-> ex, call |-> submitTransaction(signed)]

\* submitJitoBundle from the answer of endpoint call.endpoint up to the next
\* await: the signature is returned to execute(), which awaits the
\* confirmation, or the next endpoint is tried, or the transaction is
\* submitted directly
afterRelay(ex, call, answer) ==
    LET endpoints == JITO_ENDPOINTS[ex.network] IN
    IF relayAccepted(answer)
    THEN [call EXCEPT !.pc = "confirm", !.endpoint = 0, !.txHash = Signature]
    ELSE IF call.endpoint < Len(endpoints)
    THEN postBundle(call, endpoints, call.endpoint + 1)
    ELSE submitTransaction(call)

\* execute() from the end of connection.sendTransaction up to the next await
afterSend(ex, call, answer, t) ==
    IF answer = "error" THEN catchBlock(ex, call, "Transaction send failed", t)
    ELSE [executor |-> ex,
          call |-> [call EXCEPT !.pc = "confirm", !.txHash = Signature]]

\* a mutant of the confirmation's verdict: only a request that throws counts
\* as unconfirmed
confirmed_reported(answer) == answer # "throws"

\* confirmTransaction: !confirmation.value.err, and false when the request throws
confirmed(answer) == answer = "ok"

\* a mutant of the step after the confirmation: an unconfirmed transaction is
\* submitted again
afterConfirm_resubmit(ex, call, answer, t) ==
    IF confirmed(answer) THEN confirmedBlock(ex, call, t)
    ELSE [executor |-> ex, call |-> submitTransaction(call)]

\* execute() from the end of confirmTransaction to its return
afterConfirm(ex, call, answer, t) ==
    IF confirmed(answer) THEN confirmedBlock(ex, call, t)
    ELSE catchBlock(ex, call, "Transaction not confirmed", t)

\* a TradeExecutor no execute() call has been made on
NewExecutor ==
    /\ executor = Executor(TRUE, "mainnet-beta", Null)
    /\ executeCalls = <<>>

-----------------------------------------------------------------------------
(* SolanaArbitrageBot *)

\* no getAllPairQuotes() call has been made
NoFetch ==
    [pc |-> "idle", tokens |-> <<>>, pairs |-> <<>>, n |-> 0, inFlight |-> {},
     got |-> [jupiter |-> Null, raydium |-> Null, orca |-> Null],
     quotes |-> <<>>, issued |-> <<>>, failures |-> 0]

\* the ordered pairs of distinct tokens, in the order of the two nested
\* loops, from the n-th combination on
RECURSIVE pairsOf(_, _)
pairsOf(tokens, n) ==
    LET k == Len(tokens)
        i == ((n - 1) \div k) + 1
        j == ((n - 1) % k) + 1
    IN  IF n > k * k THEN <<>>
        ELSE IF i = j THEN pairsOf(tokens, n + 1)
        ELSE <<[from |-> tokens[i], to |-> tokens[j]]>> \o pairsOf(tokens, n + 1)

\* getAllPairQuotes(tokens) up to its first await, the delay before the
\* first pair
startFetch(tokens) ==
    LET pairs == pairsOf(tokens, 1) IN
    [pc |-> IF pairs = <<>> THEN "done" ELSE "delay", tokens |-> tokens,
     pairs |-> pairs, n |-> 1,
     inFlight |-> {}, got |-> NoFetch.got, quotes |-> <<>>, issued |-> <<>>,
     failures |-> 0]

\* the delay has elapsed: getQuotesForPair(pair.from, pair.to) sends its
\* three getQuote requests and awaits their join
issueFetch(f) ==
    [f EXCEPT !.pc = "fetch",
              !.inFlight = {[pair |-> f.n, venue |-> v] :
                               v \in {"jupiter", "raydium", "orca"}},
              !.got = NoFetch.got,
              !.issued = Append(@, f.pairs[f.n])]

\* a mutant of the loop: it ends at the first pair without a quote
joinFetch_stop(f) ==
    IF getQuotesForPair(f.got) = <<>> THEN [f EXCEPT !.pc = "done"]
    ELSE [f EXCEPT !.quotes = @ \o getQuotesForPair(f.got),
                   !.n = @ + 1,
                   !.pc = IF f.n < Len(f.pairs) THEN "delay" ELSE "done"]

\* the join of a pair's requests: quotes.push(...pairQuotes), and the loop
\* goes on to the delay before the next pair or ends
joinFetch(f) ==
    [f EXCEPT !.quotes = @ \o getQuotesForPair(f.got),
              !.n = @ + 1,
              !.pc = IF f.n < Len(f.pairs) THEN "delay" ELSE "done"]

\* a venue answers its request; the last answer of a pair completes the join
answerFetch(f, v, answer) ==
    LET g == [f EXCEPT !.got[v] = answer,
                       !.inFlight = @ \ {[pair |-> f.n, venue |-> v]},
                       !.failures = IF answer = Failed THEN @ + 1 ELSE @]
    IN  IF g.inFlight = {} THEN joinFetch(g) ELSE g

\* the orchestrator's fields as their initialisers leave them: not running,
\* not paused, no timer, all counters 0; no scan pass and no
\* handleOpportunity() call has been made
NewBot ==
    /\ bot = [isRunning |-> FALSE, isPaused |-> FALSE, scanInterval |-> FALSE,
              currentBalance |-> R(0), opportunitiesDetected |-> 0,
              tradesExecuted |-> 0, tradesSuccessful |-> 0, tradesFailed |-> 0,
              totalProfitUsd |-> R(0)]
    /\ scanPasses = <<>>
    /\ handleCalls = <<>>
    /\ fetch = NoFetch
    /\ scanCall = NoScan

\* wallet.isAvailable(): this.keypair !== null
walletIsAvailable(ex) == ex.keypair # Null

\* wallet.getBalance(): 0 without a keypair, else what the RPC node answers
\* (0 also when the request fails)
getBalance(ex, answer) == IF ex.keypair = Null THEN R(0) ELSE answer

\* a mutant of the scan gate: the pause flag is not read
scanGate_running(b) == b.isRunning

\* the test at the top of the scan loop's closure, negated:
\* if (!this.isRunning || this.isPaused) return
scanGate(b) == b.isRunning /\ ~b.isPaused

\* getStatus(): the fields the orchestrator computes itself
getStatus(b) ==
    [isRunning |-> b.isRunning /\ ~b.isPaused,
     balanceSol |-> b.currentBalance,
     opportunitiesDetected |-> b.opportunitiesDetected,
     tradesExecuted |-> b.tradesExecuted,
     tradesSuccessful |-> b.tradesSuccessful,
     tradesFailed |-> b.tradesFailed,
     totalProfitUsd |-> b.totalProfitUsd]

\* one call made by a handleOpportunity() call
Called(fn) == [fn |-> fn]

\* handleOpportunity(opp) up to its first await: the detection is counted
\* and telegram.notifyOpportunity(opp) is awaited
handleStart(b, opp) ==
    [bot |-> [b EXCEPT !.opportunitiesDetected = @ + 1],
     call |-> [opportunity |-> opp, pc |-> "notify", execute |-> 0,
               riskCheck |-> "none",
               calls |-> <<Called("notifyOpportunity")>>]]

\* a mutant of the wallet test: the handler goes on without a wallet
afterNotify_anyway(ex, call) ==
    [call EXCEPT !.pc = "balance", !.calls = Append(@, Called("getBalance"))]

\* handleOpportunity from the end of notifyOpportunity up to the next await:
\* it returns when the wallet is not available, else it awaits the balance
afterNotify(ex, call) ==
    IF ~walletIsAvailable(ex) THEN [call EXCEPT !.pc = "done"]
    ELSE [call EXCEPT !.pc = "balance", !.calls = Append(@, Called("getBalance"))]

\* a mutant of the trade's bookkeeping: the estimated profit is recorded
\* whatever the result
recordArgs_estimate(opp, result) ==
    [fn |-> "recordTrade", profitUsd |-> opp.estimatedProfitUsd,
     success |-> result.success]

\* a mutant of the trade's bookkeeping: a failed trade is booked as a loss
\* of the estimated profit
recordArgs_loss(opp, result) ==
    IF result.success
    THEN [fn |-> "recordTrade", profitUsd |-> opp.estimatedProfitUsd,
          success |-> TRUE]
    ELSE [fn |-> "recordTrade", profitUsd |-> RNeg(opp.estimatedProfitUsd),
          success |-> TRUE]

\* the recordTrade call that follows execute: (opp.estimatedProfitUsd, true)
\* on success, (0, false) otherwise
recordArgs(opp, result) ==
    IF result.success
    THEN [fn |-> "recordTrade", profitUsd |-> opp.estimatedProfitUsd,
          success |-> TRUE]
    ELSE [fn |-> "recordTrade", profitUsd |-> R(0), success |-> FALSE]

\* handleOpportunity from the end of execute up to the next await: the
\* counters, the RiskManager's ledger, and telegram.notifyTrade(result)
afterExecute(b, ledger, call, result) ==
    LET rec == recordArgs(call.opportunity, result) IN
    [bot |-> IF result.success
             THEN [b EXCEPT !.tradesExecuted = @ + 1, !.tradesSuccessful = @ + 1,
                            !.totalProfitUsd =
                                RAdd(@, call.opportunity.estimatedProfitUsd)]
             ELSE [b EXCEPT !.tradesExecuted = @ + 1, !.tradesFailed = @ + 1],
     ledger |-> recordTrade(ledger, rec.profitUsd, rec.success),
     call |-> [call EXCEPT !.pc = "notifyTrade",
                           !.calls = @ \o <<rec, Called("notifyTrade")>>]]

-----------------------------------------------------------------------------
(* The answers of the venues *)

\* the asset of the pairwise scans
PairToken == "USDC"

\* a venue's answers to a pairwise scan's two requests
NoAnswer == [jupiter |-> Null, raydium |-> Null, orca |-> Null]

\* base -> token: jupiter quotes 0.015, raydium 1/64
BuyJupiter == MkQuote("jupiter", SOL, PairToken, Rat(3, 200), R(0), R(0))
BuyRaydium == MkQuote("raydium", SOL, PairToken, Rat(1, 64), R(0), R(20000))

\* token -> base: jupiter quotes 64 (a spread of exactly 0 against 1/64),
\* raydium 70 (also with a price impact of 2 percent), orca 69.5 (also with
\* liquidity 5000) or 66.8 (a spread of 20 bps against 0.015)
SellJupiter == MkQuote("jupiter", PairToken, SOL, R(64), R(0), R(0))
SellRaydium == MkQuote("raydium", PairToken, SOL, R(70), R(0), R(20000))
SellRaydiumImpact == MkQuote("raydium", PairToken, SOL, R(70), R(2), R(20000))
SellOrca == MkQuote("orca", PairToken, SOL, Rat(139, 2), R(0), R(20000))
SellOrcaThin == MkQuote("orca", PairToken, SOL, Rat(139, 2), R(0), R(5000))
SellOrcaLow == MkQuote("orca", PairToken, SOL, Rat(334, 5), R(0), R(20000))

\* the (buy answers, sell answers) a pairwise scan may meet
PairAnswers ==
    { \* no venue answers
      <<NoAnswer, NoAnswer>>,
      \* one buy venue, one sell venue
      <<[NoAnswer EXCEPT !.jupiter = BuyJupiter],
        [NoAnswer EXCEPT !.raydium = SellRaydium]>>,
      \* one buy venue, two sell venues
      <<[NoAnswer EXCEPT !.jupiter = BuyJupiter],
        [NoAnswer EXCEPT !.raydium = SellRaydium, !.orca = SellOrca]>>,
      \* every venue answers; the better buy price comes second
      <<[NoAnswer EXCEPT !.jupiter = BuyJupiter, !.raydium = BuyRaydium],
        [jupiter |-> SellJupiter, raydium |-> SellRaydium, orca |-> SellOrca]>>,
      \* a sell leg with too much price impact
      <<[NoAnswer EXCEPT !.jupiter = BuyJupiter],
        [NoAnswer EXCEPT !.raydium = SellRaydiumImpact, !.orca = SellOrca]>>,
      \* a sell leg with too little liquidity
      <<[NoAnswer EXCEPT !.jupiter = BuyJupiter],
        [NoAnswer EXCEPT !.raydium = SellRaydium, !.orca = SellOrcaThin]>>,
      \* a spread below the minimum
      <<[NoAnswer EXCEPT !.jupiter = BuyJupiter],
        [NoAnswer EXCEPT !.orca = SellOrcaLow]>>,
      \* the same venue on both sides only
      <<[NoAnswer EXCEPT !.jupiter = BuyJupiter],
        [NoAnswer EXCEPT !.jupiter = SellJupiter]>> }

\* getSolPrice(): 0 when no price is available
SolPrices == {R(0), R(100)}

\* the <<buy answers, sell answers, SOL price>> of a pairwise scan: every
\* answer with a price of 100, and without a price no answer, two venue
\* pairs and every venue
ScanInputs ==
    {<<a[1], a[2], R(100)>> : a \in PairAnswers}
    \cup {<<a[1], a[2], R(0)>> :
            a \in {b \in PairAnswers :
                     \/ b[1] = NoAnswer
                     \/ b[2].raydium = SellRaydium /\ b[2].orca = SellOrca}}

\* the tokens of the cyclic scans
ScanTokens == <<SOL, "USDC", "WIF">>

\* the answers to a cyclic scan's requests: the legs of SOL -> USDC -> WIF -> SOL
\* answer, every other pair does not
GraphResponse(a) ==
    [p \in {<<ScanTokens[i], ScanTokens[j]>> : i, j \in 1..3} |->
        IF p = <<SOL, "USDC">> THEN [NoAnswer EXCEPT !.jupiter = a[1]]
        ELSE IF p = <<"USDC", "WIF">> THEN [NoAnswer EXCEPT !.raydium = a[2]]
        ELSE IF p = <<"WIF", SOL>> THEN [NoAnswer EXCEPT !.jupiter = a[3], !.orca = a[4]]
        ELSE NoAnswer]

\* SOL -> USDC at 2, also with a price impact of 2 percent
Leg1 == MkQuote("jupiter", SOL, "USDC", R(2), R(0), R(0))
Leg1Impact == MkQuote("jupiter", SOL, "USDC", R(2), R(2), R(0))

\* USDC -> WIF at 1, also with liquidity 5000
Leg2 == MkQuote("raydium", "USDC", "WIF", R(1), R(0), R(20000))
Leg2Thin == MkQuote("raydium", "USDC", "WIF", R(1), R(0), R(5000))

\* WIF -> SOL on jupiter at 1, at 1/2 (the cycle's product is 1) and at
\* 501/1000 (a profit of 20 bps); on orca at 1
Leg3 == MkQuote("jupiter", "WIF", SOL, R(1), R(0), R(0))
Leg3Even == MkQuote("jupiter", "WIF", SOL, Rat(1, 2), R(0), R(0))
Leg3Low == MkQuote("jupiter", "WIF", SOL, Rat(501, 1000), R(0), R(0))
Leg3Orca == MkQuote("orca", "WIF", SOL, R(1), R(0), R(20000))

\* the answers <<SOL->USDC jupiter, USDC->WIF raydium, WIF->SOL jupiter,
\* WIF->SOL orca>> a cyclic scan may meet
GraphAnswers ==
    { <<Null, Null, Null, Null>>,
      <<Leg1, Leg2, Leg3, Null>>,
      <<Leg1, Leg2, Leg3, Leg3Orca>>,
      <<Leg1Impact, Leg2, Leg3, Null>>,
      <<Leg1, Leg2Thin, Leg3, Null>>,
      <<Leg1, Leg2, Leg3Even, Null>>,
      <<Leg1, Leg2, Leg3Low, Null>>,
      <<Null, Null, Leg3, Null>> }

-----------------------------------------------------------------------------
(* The detector's operations *)

Init ==
    /\ adjList = NewGraph
    /\ opportunities = <<>>
    /\ opportunityHistory = <<>>
    /\ onOpportunityCallbacks = <<>>
    /\ now = 0
    /\ nextId = 1
    /\ last = [op |-> "new"]
    /\ NewRiskManager
    /\ NewExecutor
    /\ NewBot

\* the loop state a scan starts with
scanStart ==
    [opps |-> opportunities, hist |-> opportunityHistory, found |-> <<>>,
     calls |-> <<>>, nextId |-> nextId, thrown |-> FALSE]

RECURSIVE toSet(_)
toSet(q) == IF q = <<>> THEN {} ELSE {Head(q)} \cup toSet(Tail(q))

ScanToken ==
    \E input \in ScanInputs :
        LET solPrice == input[3]
            x == getCrossExchangeQuotes(input[1], input[2])
            c == [tokenMint |-> PairToken, amount |-> R(1), solPrice |-> solPrice,
                  now |-> now, cbs |-> onOpportunityCallbacks]
            st == scanTokenLoop(x.opportunities, 1, c, scanStart)
        IN  /\ nextId <= MaxOpps
            /\ opportunities' = st.opps
            /\ opportunityHistory' = st.hist
            /\ nextId' = st.nextId
            /\ last' = [op |-> "scanToken", ret |-> st.found, calls |-> st.calls,
                        buyQuotes |-> x.buyQuotes, sellQuotes |-> x.sellQuotes,
                        candidates |-> x.opportunities, solPrice |-> solPrice]
            /\ UNCHANGED <<riskVars, execVars, botVars, aggregatorVars, scanVars>>
            /\ UNCHANGED <<adjList, onOpportunityCallbacks, now>>

ScanGraph ==
    \E answers \in GraphAnswers, price \in SolPrices :
        LET quotes == getAllPairQuotes(ScanTokens, 1, GraphResponse(answers))
            \* this.graph is the graph of the scans before
            g == updateEdges(adjList, quotes, 1)
            triangles == findTriangles(g, SOL)
            \* await this.aggregator.getSolPrice() || 20
            solPrice == IF price = R(0) THEN R(20) ELSE price
            c == [tokenMint |-> SOL, amount |-> R(1), solPrice |-> solPrice,
                  now |-> now, cbs |-> onOpportunityCallbacks]
            st == scanGraphLoop(triangles, 1, c, scanStart)
        IN  /\ nextId <= MaxOpps
            /\ adjList' = g
            /\ opportunities' = st.opps
            /\ opportunityHistory' = st.hist
            /\ nextId' = st.nextId
            /\ last' = [op |-> "scanGraph", ret |-> st.found, calls |-> st.calls,
                        fetched |-> toSet(quotes), triangles |-> triangles]
            /\ UNCHANGED <<riskVars, execVars, botVars, aggregatorVars, scanVars>>
            /\ UNCHANGED <<onOpportunityCallbacks, now>>

OnOpportunity ==
    \E cb \in {"good", "bad"} :
        /\ Len(onOpportunityCallbacks) < MaxCallbacks
        /\ onOpportunityCallbacks' = Append(onOpportunityCallbacks, cb)
        /\ last' = [op |-> "onOpportunity"]
        /\ UNCHANGED <<riskVars, execVars, botVars, aggregatorVars, scanVars>>
        /\ UNCHANGED <<adjList, opportunities, opportunityHistory, now, nextId>>

GetActiveOpportunities ==
    /\ opportunities' = activeOf(opportunities, now)
    /\ last' = [op |-> "getActiveOpportunities", ret |-> activeOf(opportunities, now),
                removed |-> Len(opportunities) - Len(activeOf(opportunities, now))]
    /\ UNCHANGED <<riskVars, execVars, botVars, aggregatorVars, scanVars>>
    /\ UNCHANGED <<adjList, opportunityHistory, onOpportunityCallbacks, now, nextId>>

GetStats ==
    /\ opportunities' = activeOf(opportunities, now)
    /\ last' = [op |-> "getStats",
                ret |-> [totalDetected |-> Len(opportunityHistory),
                         activeOpportunities |-> Len(activeOf(opportunities, now))]]
    /\ UNCHANGED <<riskVars, execVars, botVars, aggregatorVars, scanVars>>
    /\ UNCHANGED <<adjList, opportunityHistory, onOpportunityCallbacks, now, nextId>>

GetHistory ==
    \E limit \in 0..MaxLimit :
        /\ last' = [op |-> "getHistory", limit |-> limit,
                    ret |-> getHistory(opportunityHistory, limit)]
        /\ UNCHANGED <<riskVars, execVars, botVars, aggregatorVars, scanVars>>
        /\ UNCHANGED <<adjList, detectorVars>>

ClearHistory ==
    /\ opportunityHistory' = <<>>
    /\ opportunities' = <<>>
    /\ last' = [op |-> "clearHistory"]
    /\ UNCHANGED <<riskVars, execVars, botVars, aggregatorVars, scanVars>>
    /\ UNCHANGED <<adjList, onOpportunityCallbacks, now, nextId>>

\* time passes
Tick ==
    \E t \in Instants :
        /\ t > now
        /\ now' = t
        /\ UNCHANGED <<riskVars, execVars, botVars, aggregatorVars, scanVars>>
        /\ UNCHANGED <<adjList, opportunities, opportunityHistory,
                       onOpportunityCallbacks, nextId, last>>

\* the detector under pairwise scans, the only scans the orchestrator runs
Next ==
    \/ ScanToken
    \/ OnOpportunity
    \/ GetActiveOpportunities
    \/ GetStats
    \/ GetHistory
    \/ ClearHistory
    \/ Tick

Spec == Init /\ [][Next]_vars

\* the detector under cyclic scans
NextCycle ==
    \/ ScanGraph
    \/ OnOpportunity
    \/ GetActiveOpportunities
    \/ ClearHistory
    \/ Tick

SpecCycle == Init /\ [][NextCycle]_vars

\* a detector with two observers registered, the second of which throws
InitScans ==
    /\ adjList = NewGraph
    /\ opportunities = <<>>
    /\ opportunityHistory = <<>>
    /\ onOpportunityCallbacks = <<"good", "bad">>
    /\ now = 0
    /\ nextId = 1
    /\ last = [op |-> "new"]
    /\ NewRiskManager
    /\ NewExecutor
    /\ NewBot

\* the detector under scans of both modes
NextScans ==
    \/ ScanToken
    \/ ScanGraph

SpecScans == InitScans /\ [][NextScans]_vars

-----------------------------------------------------------------------------
(* Graph-only specification: direct calls of the TokenGraph methods *)

InitGraph ==
    /\ adjList = NewGraph
    /\ opportunities = <<>>
    /\ opportunityHistory = <<>>
    /\ onOpportunityCallbacks = <<>>
    /\ now = 0
    /\ nextId = 1
    /\ last = [op |-> "new"]
    /\ NewRiskManager
    /\ NewExecutor
    /\ NewBot

UpdateEdge ==
    \E key \in EdgeKeys, price \in GraphRates :
      LET from == key[1]
          to == key[2]
          dex == key[3]
      IN
      \E quote \in {MkQuote(dex, from, to, price, R(0), R(0))} :
        /\ \/ EdgeCount(adjList) < MaxEdges
           \/ findIndex(getNeighbors(adjList, from), to, dex) >= 1
        /\ adjList' = updateEdge(adjList, from, to, dex, price, quote)
        /\ last' = [op |-> "updateEdge", from |-> from, to |-> to, dex |-> dex,
                    price |-> price, quote |-> quote,
                    replaced |-> findIndex(getNeighbors(adjList, from), to, dex) >= 1]
        /\ UNCHANGED <<riskVars, execVars, botVars, aggregatorVars, scanVars>>
        /\ UNCHANGED detectorVars

FindTriangles ==
    \E startToken \in Assets :
        /\ last' = [op |-> "findTriangles", startToken |-> startToken,
                    ret |-> findTriangles(adjList, startToken)]
        /\ UNCHANGED <<riskVars, execVars, botVars, aggregatorVars, scanVars>>
        /\ UNCHANGED <<adjList, detectorVars>>

NextGraph == UpdateEdge \/ FindTriangles

SpecGraph == InitGraph /\ [][NextGraph]_vars

-----------------------------------------------------------------------------
(* The RiskManager's operations *)

\* recordTrade is called while fewer than MaxTrades trades are in the ledger
MaxTrades == 2

\* the instants the RiskManager reads the clock at: its construction, exactly
\* 24h later and 1 ms after that
DayInstants == {0, dayMs, dayMs + 1}

\* the amounts recordTrade is called with
Profits == {R(-60), R(30)}

\* the wallet balances checkTrade is called with: half of it is under the
\* dust floor, under the size cap, and over the size cap
Wallets == {Rat(1, 100), R(1), R(10)}

\* the Opportunities the RiskManager is handed: a spread under the minimum,
\* under 1.5 times the minimum and over it; a size under the dust floor, at
\* the cap and over the cap; on each leg a price impact of 0, 0.6 and 3
\* percent; a buy pool of unknown and of thin liquidity and a sell pool of
\* thin and of sufficient liquidity
RiskOpportunities ==
    { [id |-> "opp", detectedAt |-> 0, spreadBps |-> spread, tradeSize |-> size,
       buyQuote |-> MkQuote("jupiter", SOL, PairToken, Rat(3, 200), bi, bl),
       sellQuote |-> MkQuote("raydium", PairToken, SOL, R(70), si, sl)] :
        spread \in {R(40), R(60), R(100)},
        size \in {Rat(1, 200), R(1), R(8)},
        bi \in {R(0), Rat(3, 5), R(3)},
        si \in {R(0), Rat(3, 5), R(3)},
        bl \in {R(0), R(5000)},
        sl \in {R(5000), R(20000)} }

InitRisk ==
    /\ adjList = NewGraph
    /\ opportunities = <<>>
    /\ opportunityHistory = <<>>
    /\ onOpportunityCallbacks = <<>>
    /\ now = 0
    /\ nextId = 1
    /\ last = [op |-> "new"]
    /\ limits = DefaultLimits
    /\ dailyPnL = R(0)
    /\ dailyStartTime = now
    /\ tradeCount = 0
    /\ failedTrades = 0
    /\ opportunity \in RiskOpportunities
    /\ walletBalanceSol \in Wallets
    /\ NewExecutor
    /\ NewBot

CheckTrade ==
    LET r == checkTrade(ledgerNow, limits, opportunity, walletBalanceSol, now) IN
    /\ dailyPnL' = r.ledger.dailyPnL
    /\ dailyStartTime' = r.ledger.dailyStartTime
    /\ tradeCount' = r.ledger.tradeCount
    /\ failedTrades' = r.ledger.failedTrades
    /\ opportunity' = r.opportunity
    /\ limits' = r.limits
    /\ last' = [op |-> "checkTrade", ret |-> r.ret]
    /\ UNCHANGED <<adjList, detectorVars, walletBalanceSol, execVars, botVars,
                   aggregatorVars, scanVars>>

CalculateOptimalSize ==
    LET r == calculateOptimalSize(limits, opportunity, walletBalanceSol) IN
    /\ opportunity' = r.opportunity
    /\ limits' = r.limits
    /\ last' = [op |-> "calculateOptimalSize", ret |-> r.ret]
    /\ UNCHANGED <<adjList, detectorVars, dailyPnL, dailyStartTime, tradeCount,
                   failedTrades, walletBalanceSol, execVars, botVars, aggregatorVars, scanVars>>

RecordTrade ==
    \E profitUsd \in Profits, success \in BOOLEAN :
        LET l == recordTrade(ledgerNow, profitUsd, success) IN
        /\ tradeCount < MaxTrades
        /\ dailyPnL' = l.dailyPnL
        /\ dailyStartTime' = l.dailyStartTime
        /\ tradeCount' = l.tradeCount
        /\ failedTrades' = l.failedTrades
        /\ last' = [op |-> "recordTrade", profitUsd |-> profitUsd, success |-> success]
        /\ UNCHANGED <<adjList, detectorVars, limits, opportunity, walletBalanceSol,
                       execVars, botVars, aggregatorVars, scanVars>>

\* time passes
RiskTick ==
    \E t \in DayInstants :
        /\ t > now
        /\ now' = t
        /\ last' = [op |-> "tick"]
        /\ UNCHANGED <<adjList, opportunities, opportunityHistory,
                       onOpportunityCallbacks, nextId, riskVars, execVars, botVars,
                       aggregatorVars, scanVars>>

NextRisk ==
    \/ CheckTrade
    \/ CalculateOptimalSize
    \/ RecordTrade
    \/ RiskTick

SpecRisk == InitRisk /\ [][NextRisk]_vars

-----------------------------------------------------------------------------
(* The RiskManager handed cyclic Opportunities *)

\* USDC -> WIF at 1 with a price impact of 3 percent
Leg2Impact == MkQuote("raydium", "USDC", "WIF", R(1), R(3), R(20000))

\* WIF -> SOL at 1 from a pool of 5000
Leg3Thin == MkQuote("jupiter", "WIF", SOL, R(1), R(0), R(5000))

\* the answers of the cyclic scans whose Opportunities reach the RiskManager:
\* sound legs, a middle leg that is thin or has a high impact, a first leg
\* with a high impact, a last leg that is thin
CyclicAnswers ==
    { <<Leg1, Leg2, Leg3, Null>>,
      <<Leg1, Leg2Thin, Leg3, Null>>,
      <<Leg1, Leg2Impact, Leg3, Null>>,
      <<Leg1Impact, Leg2, Leg3, Null>>,
      <<Leg1, Leg2, Leg3Thin, Null>> }

\* what scanGraph(tokens, 1) returns on an empty graph, at instant 0 with a
\* SOL price of 100 and no observer, for the answers a
scanGraphFound(a) ==
    LET quotes == getAllPairQuotes(ScanTokens, 1, GraphResponse(a))
        triangles == findTriangles(updateEdges(NewGraph, quotes, 1), SOL)
        c == [tokenMint |-> SOL, amount |-> R(1), solPrice |-> R(100),
              now |-> 0, cbs |-> <<>>]
        start == [opps |-> <<>>, hist |-> <<>>, found |-> <<>>, calls |-> <<>>,
                  nextId |-> 1, thrown |-> FALSE]
    IN  scanGraphLoop(triangles, 1, c, start).found

CyclicOpportunities == UNION {toSet(scanGraphFound(a)) : a \in CyclicAnswers}

InitRiskCycle ==
    /\ adjList = NewGraph
    /\ opportunities = <<>>
    /\ opportunityHistory = <<>>
    /\ onOpportunityCallbacks = <<>>
    /\ now = 0
    /\ nextId = 1
    /\ last = [op |-> "new"]
    /\ limits = DefaultLimits
    /\ dailyPnL = R(0)
    /\ dailyStartTime = now
    /\ tradeCount = 0
    /\ failedTrades = 0
    /\ opportunity \in CyclicOpportunities
    /\ walletBalanceSol \in Wallets
    /\ NewExecutor
    /\ NewBot

SpecRiskCycle == InitRiskCycle /\ [][NextRisk]_vars

-----------------------------------------------------------------------------
(* The TradeExecutor's operations *)

\* number of execute() calls made
MaxCalls == 2

\* the Opportunity of the k-th execute() call
ExecOpportunity(k) ==
    [id |-> k, tokenMint |-> PairToken, buyDex |-> "jupiter", sellDex |-> "raydium",
     buyPrice |-> R(64), tradeSize |-> R(1)]

\* what a relay endpoint, the RPC node's sendTransaction and its
\* confirmTransaction may answer
RelayAnswers == {"result", "noResult", "error"}
SendAnswers == {"signature", "error"}
ConfirmAnswers == {"ok", "err", "throws"}

InitExec ==
    /\ adjList = NewGraph
    /\ opportunities = <<>>
    /\ opportunityHistory = <<>>
    /\ onOpportunityCallbacks = <<>>
    /\ now = 0
    /\ nextId = 1
    /\ last = [op |-> "new"]
    /\ NewRiskManager
    /\ executor \in {Executor(u, n, k) : u \in BOOLEAN,
                                          n \in {"mainnet-beta", "devnet"},
                                          k \in {Null, Keypair}}
    /\ executeCalls = <<>>
    /\ NewBot

\* the calls waiting at the await named pc
Waiting(pc) == {c \in 1..Len(executeCalls) : executeCalls[c].pc = pc}

Execute ==
    LET k == Len(executeCalls) + 1
        r == executeStart(executor, ExecOpportunity(k), now)
    IN  /\ k <= MaxCalls
        /\ executor' = r.executor
        /\ executeCalls' = Append(executeCalls, r.call)
        /\ last' = [op |-> "execute", call |-> k]
        /\ UNCHANGED <<adjList, detectorVars, riskVars, botVars, aggregatorVars, scanVars>>

BuildReturns ==
    \E c \in Waiting("build"), built \in BOOLEAN :
        LET r == afterBuild(executor, executeCalls[c], built, now) IN
        /\ executor' = r.executor
        /\ executeCalls' = [executeCalls EXCEPT ![c] = r.call]
        /\ last' = [op |-> "build", call |-> c,
                    answer |-> IF built THEN "transaction" ELSE "null"]
        /\ UNCHANGED <<adjList, detectorVars, riskVars, botVars, aggregatorVars, scanVars>>

RelayReturns ==
    \E c \in Waiting("relay"), answer \in RelayAnswers :
        /\ executeCalls' = [executeCalls EXCEPT
                               ![c] = afterRelay(executor, executeCalls[c], answer)]
        /\ last' = [op |-> "relay", call |-> c, answer |-> answer]
        /\ UNCHANGED <<adjList, detectorVars, riskVars, executor, botVars,
                       aggregatorVars, scanVars>>

SendReturns ==
    \E c \in Waiting("direct"), answer \in SendAnswers :
        LET r == afterSend(executor, executeCalls[c], answer, now) IN
        /\ executor' = r.executor
        /\ executeCalls' = [executeCalls EXCEPT ![c] = r.call]
        /\ last' = [op |-> "send", call |-> c, answer |-> answer]
        /\ UNCHANGED <<adjList, detectorVars, riskVars, botVars, aggregatorVars, scanVars>>

ConfirmReturns ==
    \E c \in Waiting("confirm"), answer \in ConfirmAnswers :
        LET r == afterConfirm(executor, executeCalls[c], answer, now) IN
        /\ executor' = r.executor
        /\ executeCalls' = [executeCalls EXCEPT ![c] = r.call]
        /\ last' = [op |-> "confirm", call |-> c, answer |-> answer]
        /\ UNCHANGED <<adjList, detectorVars, riskVars, botVars, aggregatorVars, scanVars>>

NextExec ==
    \/ Execute
    \/ BuildReturns
    \/ RelayReturns
    \/ SendReturns
    \/ ConfirmReturns

SpecExec == InitExec /\ [][NextExec]_vars

-----------------------------------------------------------------------------
(* The TradeExecutor under a clock *)

\* confirmTimeoutMs: config?.confirmTimeoutMs ?? 30000; the constructor
\* stores it, and no method reads it
confirmTimeoutMs == 30000

\* the instants of the clock: the start, and the end of the configured
\* confirmation timeout and the instant after it
ExecInstants == {0, confirmTimeoutMs, confirmTimeoutMs + 1}

\* time passes; execute() has armed no timer, so no call is resumed
ExecTick ==
    \E t \in ExecInstants :
        /\ t > now
        /\ now' = t
        /\ UNCHANGED <<adjList, opportunities, opportunityHistory,
                       onOpportunityCallbacks, nextId, last, riskVars, execVars, botVars,
                       aggregatorVars, scanVars>>

NextExecLive ==
    \/ Execute
    \/ BuildReturns
    \/ RelayReturns
    \/ SendReturns
    \/ ConfirmReturns
    \/ ExecTick

\* the build, each relay endpoint (posted with a timeout of 10 s) and the
\* direct submission answer, and time passes; the confirmation request
\* is answered only if the network answers it
SpecExecLive ==
    /\ InitExec
    /\ [][NextExecLive]_vars
    /\ WF_vars(BuildReturns)
    /\ WF_vars(RelayReturns)
    /\ WF_vars(SendReturns)
    /\ WF_vars(ExecTick)

-----------------------------------------------------------------------------
(* The orchestrator's operations *)

\* scan passes started, and handleOpportunity() calls made
MaxPasses == 2
MaxHandles == 1

\* what the RPC node answers to getBalance: an empty wallet (or a failed
\* request) and a funded one
BotBalances == {R(0), R(10)}

\* what the venues answer to a pass's scan: nothing, or one buy and one sell
\* venue with a spread of 500 bps
BotScanInputs ==
    { <<NoAnswer, NoAnswer, R(100)>>,
      <<[NoAnswer EXCEPT !.jupiter = BuyJupiter],
        [NoAnswer EXCEPT !.raydium = SellRaydium], R(100)>> }

\* the executor submits directly; the wallet has a keypair or none
InitBot ==
    /\ adjList = NewGraph
    /\ opportunities = <<>>
    /\ opportunityHistory = <<>>
    /\ onOpportunityCallbacks = <<>>
    /\ now = 0
    /\ nextId = 1
    /\ last = [op |-> "new"]
    /\ NewRiskManager
    /\ executor \in {Executor(FALSE, "devnet", k) : k \in {Null, Keypair}}
    /\ executeCalls = <<>>
    /\ NewBot

\* the scan passes and the handleOpportunity() calls waiting at the await
\* named pc
Passes(pc) == {p \in 1..Len(scanPasses) : scanPasses[p].pc = pc}
Handles(pc) == {h \in 1..Len(handleCalls) : handleCalls[h].pc = pc}

\* a pass of the scan loop's closure up to its first await, wallet.getBalance()
NewPass == [pc |-> "balance"]

\* start(): the handler is registered with the detector, isRunning is set,
\* and startScanLoop runs the closure once and arms the timer
Start ==
    /\ ~bot.isRunning
    /\ ~bot.scanInterval
    /\ onOpportunityCallbacks' = Append(onOpportunityCallbacks, "handleOpportunity")
    /\ bot' = [bot EXCEPT !.isRunning = TRUE, !.scanInterval = TRUE]
    /\ scanPasses' = Append(scanPasses, NewPass)
    /\ last' = [op |-> "start"]
    /\ UNCHANGED <<adjList, opportunities, opportunityHistory, now, nextId,
                   riskVars, execVars, handleCalls, aggregatorVars, scanVars>>

\* the timer fires: the closure returns at once unless the bot is running
\* and not paused
TimerTick ==
    /\ bot.scanInterval
    /\ IF scanGate(bot)
       THEN /\ Len(scanPasses) < MaxPasses
            /\ scanPasses' = Append(scanPasses, NewPass)
       ELSE UNCHANGED scanPasses
    /\ last' = [op |-> "tick", started |-> scanGate(bot)]
    /\ UNCHANGED <<adjList, detectorVars, riskVars, execVars, bot, handleCalls,
                   aggregatorVars, scanVars>>

\* this.currentBalance = await this.wallet.getBalance(), and
\* detector.scanTokens is awaited
PassBalance ==
    \E p \in Passes("balance"), answer \in BotBalances :
        /\ bot' = [bot EXCEPT !.currentBalance = getBalance(executor, answer)]
        /\ scanPasses' = [scanPasses EXCEPT ![p].pc = "scan"]
        /\ last' = [op |-> "passBalance", pass |-> p]
        /\ UNCHANGED <<adjList, detectorVars, riskVars, execVars, handleCalls,
                       aggregatorVars, scanVars>>

\* the handleOpportunity() calls the detector's invocations start, from
\* invocation i on
RECURSIVE handleAll(_, _, _, _)
handleAll(b, found, i, started) ==
    IF i > Len(found) THEN [bot |-> b, started |-> started]
    ELSE LET r == handleStart(b, found[i]) IN
         handleAll(r.bot, found, i + 1, Append(started, r.call))

\* the venues answer the scan of pass p with input: the detector's scanToken
\* emits, each emission invokes handleOpportunity, and the pass ends; the
\* step is taken while no more than maxHandles handlers have been started
passScan(p, input, maxHandles) ==
    LET x == getCrossExchangeQuotes(input[1], input[2])
        c == [tokenMint |-> PairToken, amount |-> R(1), solPrice |-> input[3],
              now |-> now, cbs |-> onOpportunityCallbacks]
        st == scanTokenLoop(x.opportunities, 1, c, scanStart)
        r == handleAll(bot, st.found, 1, <<>>)
    IN  /\ Len(handleCalls) + Len(st.found) <= maxHandles
        /\ Len(st.calls) = Len(st.found)
        /\ opportunities' = st.opps
        /\ opportunityHistory' = st.hist
        /\ nextId' = st.nextId
        /\ bot' = r.bot
        /\ handleCalls' = handleCalls \o r.started
        /\ scanPasses' = [scanPasses EXCEPT ![p].pc = "done"]
        /\ last' = [op |-> "scan", pass |-> p, found |-> Len(st.found)]
        /\ UNCHANGED <<adjList, onOpportunityCallbacks, now, riskVars, execVars,
                       aggregatorVars, scanVars>>

PassScan ==
    \E p \in Passes("scan"), input \in BotScanInputs :
        passScan(p, input, MaxHandles)

\* telegram.notifyOpportunity returns
HandleNotified ==
    \E h \in Handles("notify") :
        /\ handleCalls' = [handleCalls EXCEPT
                              ![h] = afterNotify(executor, handleCalls[h])]
        /\ last' = [op |-> "notified", handle |-> h]
        /\ UNCHANGED <<adjList, detectorVars, riskVars, execVars, bot, scanPasses,
                       aggregatorVars, scanVars>>

\* wallet.getBalance returns answer to handler h: checkTrade(opp, balance),
\* and on a pass executor.execute(opp) up to its first await
handleBalance(h, answer) ==
    LET call == handleCalls[h]
        balance == getBalance(executor, answer)
        r == checkTrade(ledgerNow, limits, call.opportunity, balance, now)
        checked == [call EXCEPT !.opportunity = r.opportunity,
                                !.calls = Append(@, Called("checkTrade"))]
        e == executeStart(executor, r.opportunity, now)
    IN  /\ dailyPnL' = r.ledger.dailyPnL
        /\ dailyStartTime' = r.ledger.dailyStartTime
        /\ tradeCount' = r.ledger.tradeCount
        /\ failedTrades' = r.ledger.failedTrades
        /\ limits' = r.limits
        /\ opportunity' = r.opportunity
        /\ walletBalanceSol' = balance
        /\ IF r.ret.passed
           THEN /\ executor' = e.executor
                /\ executeCalls' = Append(executeCalls, e.call)
                /\ handleCalls' = [handleCalls EXCEPT ![h] =
                      [checked EXCEPT !.pc = "execute", !.riskCheck = "passed",
                                      !.execute = Len(executeCalls) + 1,
                                      !.calls = Append(@, Called("execute"))]]
           ELSE /\ handleCalls' = [handleCalls EXCEPT ![h] =
                      [checked EXCEPT !.pc = "done", !.riskCheck = "rejected"]]
                /\ UNCHANGED execVars
        /\ last' = [op |-> "checked", handle |-> h]
        /\ UNCHANGED <<adjList, detectorVars, bot, scanPasses, aggregatorVars, scanVars>>

HandleBalance ==
    \E h \in Handles("balance"), answer \in BotBalances : handleBalance(h, answer)

\* executor.execute returns its TradeResult
HandleExecuted ==
    \E h \in Handles("execute") :
        LET call == handleCalls[h] IN
        /\ executeCalls[call.execute].pc = "done"
        /\ LET r == afterExecute(bot, ledgerNow, call,
                                 executeCalls[call.execute].outcome.returned)
           IN  /\ bot' = r.bot
               /\ dailyPnL' = r.ledger.dailyPnL
               /\ dailyStartTime' = r.ledger.dailyStartTime
               /\ tradeCount' = r.ledger.tradeCount
               /\ failedTrades' = r.ledger.failedTrades
               /\ handleCalls' = [handleCalls EXCEPT ![h] = r.call]
        /\ last' = [op |-> "executed", handle |-> h]
        /\ UNCHANGED <<adjList, detectorVars, limits, opportunity, walletBalanceSol,
                       execVars, scanPasses, aggregatorVars, scanVars>>

\* telegram.notifyTrade returns, and with it handleOpportunity
HandleTradeNotified ==
    \E h \in Handles("notifyTrade") :
        /\ handleCalls' = [handleCalls EXCEPT ![h].pc = "done"]
        /\ last' = [op |-> "tradeNotified", handle |-> h]
        /\ UNCHANGED <<adjList, detectorVars, riskVars, execVars, bot, scanPasses,
                       aggregatorVars, scanVars>>

\* the /pause and /resume commands, registered by start()
Pause ==
    /\ bot.isRunning
    /\ bot' = [bot EXCEPT !.isPaused = TRUE]
    /\ last' = [op |-> "pause"]
    /\ UNCHANGED <<adjList, detectorVars, riskVars, execVars, scanPasses,
                   handleCalls, aggregatorVars, scanVars>>

Resume ==
    /\ bot.isRunning
    /\ bot' = [bot EXCEPT !.isPaused = FALSE]
    /\ last' = [op |-> "resume"]
    /\ UNCHANGED <<adjList, detectorVars, riskVars, execVars, scanPasses,
                   handleCalls, aggregatorVars, scanVars>>

GetStatus ==
    /\ last' = [op |-> "getStatus", ret |-> getStatus(bot)]
    /\ UNCHANGED <<adjList, detectorVars, riskVars, execVars, botVars, aggregatorVars, scanVars>>

NextBot ==
    \/ Start
    \/ TimerTick
    \/ PassBalance
    \/ PassScan
    \/ HandleNotified
    \/ HandleBalance
    \/ HandleExecuted
    \/ HandleTradeNotified
    \/ BuildReturns
    \/ SendReturns
    \/ ConfirmReturns
    \/ Pause
    \/ Resume
    \/ GetStatus

SpecBot == InitBot /\ [][NextBot]_vars

-----------------------------------------------------------------------------
(* The orchestrator's handler under a clock *)

\* number of handleOpportunity() calls the detector starts
MaxEmitted == 2

\* what the venues answer to the scan: nothing, one buy and one sell venue
\* (one Opportunity), one buy and two sell venues (two Opportunities)
HandlerScanInputs ==
    { <<NoAnswer, NoAnswer, R(100)>>,
      <<[NoAnswer EXCEPT !.jupiter = BuyJupiter],
        [NoAnswer EXCEPT !.raydium = SellRaydium], R(100)>>,
      <<[NoAnswer EXCEPT !.jupiter = BuyJupiter],
        [NoAnswer EXCEPT !.raydium = SellRaydium, !.orca = SellOrca], R(100)>> }

\* what the RPC node answers to the handler's getBalance: a wallet half of
\* which is less than the scanned amount, and one that covers it
HandlerBalances == {R(1), R(10)}

\* the bot after start(), its first pass awaiting the detector's scan: the
\* handler is registered, the wallet has a keypair and a balance of 10, and
\* the executor submits directly
InitHandle ==
    /\ adjList = NewGraph
    /\ opportunities = <<>>
    /\ opportunityHistory = <<>>
    /\ onOpportunityCallbacks = <<"handleOpportunity">>
    /\ now = 0
    /\ nextId = 1
    /\ last = [op |-> "passBalance", pass |-> 1]
    /\ NewRiskManager
    /\ executor = Executor(FALSE, "devnet", Keypair)
    /\ executeCalls = <<>>
    /\ bot = [isRunning |-> TRUE, isPaused |-> FALSE, scanInterval |-> TRUE,
              currentBalance |-> R(10), opportunitiesDetected |-> 0,
              tradesExecuted |-> 0, tradesSuccessful |-> 0, tradesFailed |-> 0,
              totalProfitUsd |-> R(0)]
    /\ scanPasses = <<[pc |-> "scan"]>>
    /\ handleCalls = <<>>
    /\ fetch = NoFetch
    /\ scanCall = NoScan

PassScanPairs ==
    \E p \in Passes("scan"), input \in HandlerScanInputs :
        passScan(p, input, MaxEmitted)

HandleBalanceAnswered ==
    \E h \in Handles("balance"), answer \in HandlerBalances : handleBalance(h, answer)

NextHandle ==
    \/ PassScanPairs
    \/ HandleNotified
    \/ HandleBalanceAnswered
    \/ HandleExecuted
    \/ HandleTradeNotified
    \/ BuildReturns
    \/ SendReturns
    \/ ConfirmReturns
    \/ Tick

SpecHandle == InitHandle /\ [][NextHandle]_vars

-----------------------------------------------------------------------------
(* The pairwise scan under failing venues *)

\* orca's quote base -> token
BuyOrca == MkQuote("orca", SOL, PairToken, Rat(3, 200), R(0), R(20000))

\* every venue answers with a quote
BuyAll == [jupiter |-> BuyJupiter, raydium |-> BuyRaydium, orca |-> BuyOrca]
SellAll == [jupiter |-> SellJupiter, raydium |-> SellRaydium, orca |-> SellOrca]

Venues == {"jupiter", "raydium", "orca"}

\* the answers to one request: each venue answers with its quote, with no
\* quote, or its request is rejected
VenueAnswers(all) ==
    {[v \in Venues |-> IF v \in quiet THEN Null
                       ELSE IF v \in failing THEN Failed ELSE all[v]] :
        quiet \in SUBSET Venues, failing \in SUBSET Venues}

\* the answers in which each venue answers with its quote or is rejected
VenueFailures(all) ==
    {[v \in Venues |-> IF v \in failing THEN Failed ELSE all[v]] :
        failing \in SUBSET Venues}

\* aggregator.getQuotesForPair(base, token, amount)
GetQuotesForPair ==
    \E resp \in VenueAnswers(BuyAll) :
        /\ last' = [op |-> "getQuotesForPair", resp |-> resp,
                    ret |-> getQuotesForPair(resp)]
        /\ UNCHANGED <<adjList, detectorVars, riskVars, execVars, botVars,
                       aggregatorVars, scanVars>>

\* detector.scanToken(token), each venue answering or failing on each leg
ScanTokenVenues ==
    \E buy \in VenueFailures(BuyAll), sell \in VenueFailures(SellAll) :
        LET x == getCrossExchangeQuotes(buy, sell)
            c == [tokenMint |-> PairToken, amount |-> R(1), solPrice |-> R(100),
                  now |-> now, cbs |-> onOpportunityCallbacks]
            st == scanTokenLoop(x.opportunities, 1, c, scanStart)
        IN  /\ nextId <= MaxOpps
            /\ opportunities' = st.opps
            /\ opportunityHistory' = st.hist
            /\ nextId' = st.nextId
            /\ last' = [op |-> "scanToken", buy |-> buy, sell |-> sell,
                        ret |-> st.found, thrown |-> st.thrown,
                        buyQuotes |-> x.buyQuotes, sellQuotes |-> x.sellQuotes]
            /\ UNCHANGED <<riskVars, execVars, botVars, aggregatorVars, scanVars>>
            /\ UNCHANGED <<adjList, onOpportunityCallbacks, now>>

NextVenues == GetQuotesForPair \/ ScanTokenVenues

SpecVenues == Init /\ [][NextVenues]_vars

-----------------------------------------------------------------------------
(* The fetch phase of the cyclic scan *)

\* venue requests that fail in one getAllPairQuotes() call
MaxFailures == 3

\* the token lists getAllPairQuotes is called with
FetchTokens == {<<SOL, "USDC">>, <<SOL, "USDC", "WIF">>}

\* the quote a venue answers a pair's request with
VenueQuote(v, pair) == MkQuote(v, pair.from, pair.to, R(1), R(0), R(0))

GetAllPairQuotes ==
    \E tokens \in FetchTokens :
        /\ fetch.pc = "idle"
        /\ fetch' = startFetch(tokens)
        /\ last' = [op |-> "getAllPairQuotes"]
        /\ UNCHANGED <<adjList, detectorVars, riskVars, execVars, botVars, scanVars>>

\* await new Promise(resolve => setTimeout(resolve, 300)) returns
DelayElapsed ==
    /\ fetch.pc = "delay"
    /\ fetch' = issueFetch(fetch)
    /\ last' = [op |-> "issue"]
    /\ UNCHANGED <<adjList, detectorVars, riskVars, execVars, botVars, scanVars>>

\* a venue's getQuote promise settles: with a quote, or rejected
VenueReturns ==
    \E r \in fetch.inFlight :
        \E answer \in {VenueQuote(r.venue, fetch.pairs[r.pair])}
                        \cup (IF fetch.failures < MaxFailures THEN {Failed} ELSE {}) :
            /\ fetch' = answerFetch(fetch, r.venue, answer)
            /\ last' = [op |-> "answer"]
            /\ UNCHANGED <<adjList, detectorVars, riskVars, execVars, botVars, scanVars>>

NextFetch ==
    \/ GetAllPairQuotes
    \/ DelayElapsed
    \/ VenueReturns

SpecFetch == Init /\ [][NextFetch]_vars

-----------------------------------------------------------------------------
(* The detector's batched scan *)

\* the token lists scanTokens is called with: less than a batch, a batch, and
\* a batch and one more
BatchTokens == {<<"USDC", "WIF">>, <<"USDC", "WIF", "BONK">>,
                <<"USDC", "WIF", "BONK", "JUP">>}

\* what the venues answer to the two requests of a pass for token: nothing,
\* or jupiter buying at 0.015 and raydium selling at 70 (72 for USDC)
TokenAnswers(token) ==
    { <<NoAnswer, NoAnswer>>,
      <<[NoAnswer EXCEPT !.jupiter =
            MkQuote("jupiter", SOL, token, Rat(3, 200), R(0), R(0))],
        [NoAnswer EXCEPT !.raydium =
            MkQuote("raydium", token, SOL, IF token = "USDC" THEN R(72) ELSE R(70),
                    R(0), R(20000))]>> }

\* scanTokens(tokens) is called and starts its first batch
ScanTokensCalled ==
    \E tokens \in BatchTokens :
        /\ scanCall.pc = "idle"
        /\ scanCall' = scanTokens(tokens)
        /\ last' = [op |-> "scanTokens"]
        /\ UNCHANGED <<adjList, detectorVars, riskVars, execVars, botVars,
                       aggregatorVars>>

\* getCrossExchangeQuotes returns to pass p, which awaits getSolPrice
QuotesReturn ==
    \E p \in InProgressPasses(scanCall) :
        \E answer \in TokenAnswers(scanCall.passes[p].token) :
            /\ scanCall.passes[p].pc = "quotes"
            /\ scanCall' = [scanCall EXCEPT
                    !.passes[p].pc = "price",
                    !.passes[p].candidates =
                        getCrossExchangeQuotes(answer[1], answer[2]).opportunities]
            /\ last' = [op |-> "quotes", pass |-> p]
            /\ UNCHANGED <<adjList, detectorVars, riskVars, execVars, botVars,
                           aggregatorVars>>

\* getSolPrice returns to pass p: the pass filters its candidates, inserts
\* what it emits into the map and the history, and returns; the batch is
\* joined when p was its last pass. 'beside' keeps the passes that were in
\* progress while p made its insertions.
PriceReturns ==
    \E p \in InProgressPasses(scanCall), solPrice \in SolPrices :
        LET pass == scanCall.passes[p]
            c == [tokenMint |-> pass.token, amount |-> R(1), solPrice |-> solPrice,
                  now |-> now, cbs |-> onOpportunityCallbacks]
            st == scanTokenLoop(pass.candidates, 1, c, scanStart)
        IN  /\ pass.pc = "price"
            /\ opportunities' = st.opps
            /\ opportunityHistory' = st.hist
            /\ nextId' = st.nextId
            /\ scanCall' = joinBatch([scanCall EXCEPT
                    !.passes[p].pc = "done",
                    !.passes[p].found = st.found,
                    !.passes[p].beside = InProgressPasses(scanCall) \ {p}])
            /\ last' = [op |-> "price", pass |-> p]
            /\ UNCHANGED <<adjList, onOpportunityCallbacks, now, riskVars, execVars,
                           botVars, aggregatorVars>>

NextBatch ==
    \/ ScanTokensCalled
    \/ QuotesReturn
    \/ PriceReturns

SpecBatch == Init /\ [][NextBatch]_vars

-----------------------------------------------------------------------------
(* Properties of the rate graph *)

\* an index triple <<i, j, k>> that names a path start -> . -> . -> start
\* whose second edge does not land on start
IsPath(adj, start, t) ==
    /\ t[1] <= Len(getNeighbors(adj, start))
    /\ LET e1 == getNeighbors(adj, start)[t[1]] IN
       /\ t[2] <= Len(getNeighbors(adj, e1.to))
       /\ LET e2 == getNeighbors(adj, e1.to)[t[2]] IN
          /\ e2.to # start
          /\ t[3] <= Len(getNeighbors(adj, e2.to))
          /\ getNeighbors(adj, e2.to)[t[3]].to = start

PathEdges(adj, start, t) ==
    LET e1 == getNeighbors(adj, start)[t[1]]
        e2 == getNeighbors(adj, e1.to)[t[2]]
        e3 == getNeighbors(adj, e2.to)[t[3]]
    IN  <<e1, e2, e3>>

\* r1 * r2 * r3 as a pair <<numerator, denominator>>, not reduced
RateProduct(path) ==
    <<path[1].price.n * path[2].price.n * path[3].price.n,
      path[1].price.d * path[2].price.d * path[3].price.d>>

Paths(adj, start) ==
    LET L == EdgeCount(adj) IN
    {t \in (1..L) \X (1..L) \X (1..L) : IsPath(adj, start, t)}

ProfitablePaths(adj, start) ==
    {t \in Paths(adj, start) :
        LET p == RateProduct(PathEdges(adj, start, t)) IN p[1] > p[2]}

LexLess(u, t) ==
    \/ u[1] < t[1]
    \/ u[1] = t[1] /\ u[2] < t[2]
    \/ u[1] = t[1] /\ u[2] = t[2] /\ u[3] < t[3]

\* C1: findTriangles(start) returns exactly one entry per path
\* start -> . -> . -> start (second edge not landing on start) whose rate
\* product is > 1, with profitBps = (r1*r2*r3 - 1) * 10000, in nested
\* edge-insertion order; a path with product <= 1 is not reported.
C1_TrianglesExact ==
    last.op = "findTriangles" =>
        LET Q == ProfitablePaths(adjList, last.startToken) IN
        /\ Len(last.ret) = Cardinality(Q)
        /\ \A t \in Q :
              LET n == Cardinality({u \in Q : LexLess(u, t)}) + 1
                  path == PathEdges(adjList, last.startToken, t)
                  p == RateProduct(path)
              IN  /\ last.ret[n].path = path
                  /\ last.ret[n].profitBps = Rat((p[1] - p[2]) * 10000, p[2])

\* two triangles are reported and a path with product <= 1 is left out
C1_Witness ==
    /\ last.op = "findTriangles"
    /\ Len(last.ret) >= 2
    /\ Paths(adjList, last.startToken) # ProfitablePaths(adjList, last.startToken)

UniqueKeys ==
    \A f \in DOMAIN adjList :
        \A i, j \in 1..Len(adjList[f]) :
            (adjList[f][i].to = adjList[f][j].to /\ adjList[f][i].dex = adjList[f][j].dex)
                => i = j

\* what one updateEdge(from, to, dex, price, quote) step does to the graph
UpsertEffect ==
    LET a == last'
        old == getNeighbors(adjList, a.from)
        new == adjList'[a.from]
        e == [to |-> a.to, dex |-> a.dex, price |-> a.price, quote |-> a.quote]
        hit == {i \in 1..Len(old) : old[i].to = a.to /\ old[i].dex = a.dex}
    IN  /\ DOMAIN adjList' = DOMAIN adjList \cup {a.from}
        /\ \A t \in DOMAIN adjList \ {a.from} : adjList'[t] = adjList[t]
        /\ IF hit # {}
           THEN /\ Len(new) = Len(old)
                /\ EdgeCount(adjList') = EdgeCount(adjList)
                /\ \A i \in 1..Len(old) :
                      new[i] = IF i \in hit THEN e ELSE old[i]
           ELSE /\ Len(new) = Len(old) + 1
                /\ \A i \in 1..Len(old) : new[i] = old[i]
                /\ new[Len(new)] = e

\* C2: the graph holds at most one edge per (from, to, venue); an upsert
\* with an existing key replaces that edge's rate and quote in place (the
\* edge count does not grow) and leaves every other edge unchanged.
C2_UpsertByKey ==
    /\ []UniqueKeys
    /\ [][last'.op = "updateEdge" => UpsertEffect]_vars

\* an upsert has replaced an edge of a graph that holds other edges too
C2_Witness ==
    /\ last.op = "updateEdge"
    /\ last.replaced
    /\ EdgeCount(adjList) >= 3
    /\ \E i \in 1..Len(adjList[last.from]) :
          /\ adjList[last.from][i].to = last.to
          /\ adjList[last.from][i].dex = last.dex
          /\ adjList[last.from][i].price = last.price
          /\ i < Len(adjList[last.from])

-----------------------------------------------------------------------------
(* Properties of the pairwise scan *)

\* sellPrice * buyPrice as a pair <<numerator, denominator>>, not reduced
PriceProduct(buyQuote, sellQuote) ==
    <<sellQuote.price.n * buyQuote.price.n, sellQuote.price.d * buyQuote.price.d>>

\* C3: the pairwise scan enumerates every (buy quote, sell quote) pair and
\* produces a candidate only when the two venues differ; the candidate's
\* spreadBps is (sellPrice * buyPrice - 1) * 10000, i.e. the buy price is
\* inverted before subtracting, and it is > 0 (0.015 against 70 gives 500);
\* no candidate and no emitted pairwise Opportunity has buyDex = sellDex.
C3_PairwiseCandidates ==
    /\ \A o \in toSet(opportunities) \cup toSet(opportunityHistory) :
          ~o.isTriangular => o.buyDex # o.sellDex
    /\ last.op = "scanToken" =>
          LET C == last.candidates
              B == toSet(last.buyQuotes)
              S == toSet(last.sellQuotes)
          IN  /\ \A i \in 1..Len(C) :
                    LET p == PriceProduct(C[i].buyQuote, C[i].sellQuote) IN
                    /\ C[i].buyQuote \in B
                    /\ C[i].sellQuote \in S
                    /\ C[i].buyDex = C[i].buyQuote.dex
                    /\ C[i].sellDex = C[i].sellQuote.dex
                    /\ C[i].buyDex # C[i].sellDex
                    /\ p[1] > p[2]
                    /\ C[i].spreadBps = Rat((p[1] - p[2]) * 10000, p[2])
              /\ \A b \in B, q \in S :
                    LET p == PriceProduct(b, q) IN
                    (b.dex # q.dex /\ p[1] > p[2]) =>
                        Cardinality({i \in 1..Len(C) :
                            C[i].buyQuote = b /\ C[i].sellQuote = q}) = 1
              /\ (BuyJupiter \in B /\ SellRaydium \in S) =>
                    \E i \in 1..Len(C) :
                        /\ C[i].buyQuote = BuyJupiter
                        /\ C[i].sellQuote = SellRaydium
                        /\ C[i].spreadBps = R(500)
              /\ \A i \in 1..Len(last.ret) : last.ret[i].buyDex # last.ret[i].sellDex

\* a scan in which a venue answered on both sides, a pair of different
\* venues had a spread of exactly 0, and 0.015 against 70 was a candidate
C3_Witness ==
    /\ last.op = "scanToken"
    /\ \E b \in toSet(last.buyQuotes), q \in toSet(last.sellQuotes) : b.dex = q.dex
    /\ \E b \in toSet(last.buyQuotes), q \in toSet(last.sellQuotes) :
          /\ b.dex # q.dex
          /\ PriceProduct(b, q)[1] = PriceProduct(b, q)[2]
    /\ \E i \in 1..Len(last.candidates) : last.candidates[i].spreadBps = R(500)
    /\ Len(last.ret) >= 2

\* the scan of the end-to-end example: venue A (jupiter) buys at 0.0150,
\* venues B (raydium) and C (orca) sell at 70.0 and 69.5, liquidity is
\* sufficient and a SOL price is available
C4_Example ==
    /\ last.op = "scanToken"
    /\ last.buyQuotes = <<BuyJupiter>>
    /\ last.sellQuotes = <<SellRaydium, SellOrca>>
    /\ last.solPrice = R(100)

Admitted(cand, solPrice) ==
    /\ RLe(R(minProfitBps), cand.spreadBps)
    /\ RLe(cand.buyQuote.priceImpact, Rat(maxSlippageBps, 100))
    /\ RLe(cand.sellQuote.priceImpact, Rat(maxSlippageBps, 100))
    /\ cand.buyQuote.liquidity = R(0) \/ RLe(R(minLiquidityUsd), cand.buyQuote.liquidity)
    /\ cand.sellQuote.liquidity = R(0) \/ RLe(R(minLiquidityUsd), cand.sellQuote.liquidity)
    /\ solPrice.n > 0
    /\ RLt(R(10), cand.spreadBps)

-----------------------------------------------------------------------------
(* Properties of the detector *)

\* the three admission filters, on the buy and sell legs of an Opportunity
FiltersHold(o) ==
    /\ RLe(R(minProfitBps), o.spreadBps)
    /\ RLe(o.buyQuote.priceImpact, Rat(maxSlippageBps, 100))
    /\ RLe(o.sellQuote.priceImpact, Rat(maxSlippageBps, 100))
    /\ o.buyQuote.liquidity = R(0) \/ RLe(R(minLiquidityUsd), o.buyQuote.liquidity)
    /\ o.sellQuote.liquidity = R(0) \/ RLe(R(minLiquidityUsd), o.sellQuote.liquidity)

\* C5: every Opportunity emitted by scanToken or by scanGraph satisfies the
\* three admission filters: spread >= minProfitBps, each leg's price impact
\* <= maxSlippageBps/100, each leg's liquidity unknown (0) or >= minLiquidityUsd.
C5_FiltersBothModes ==
    \A o \in toSet(opportunities) \cup toSet(opportunityHistory) : FiltersHold(o)

\* C6: each admitted Opportunity is in the active map under its id, is
\* appended last to the history and is delivered exactly once to every
\* registered observer in registration order; a throwing observer stops
\* neither the delivery to the others nor the later emissions of the scan
\* nor the scan returning its list.
C6_Emission ==
    last.op = "scanToken" =>
        LET F == last.ret
            n == Len(onOpportunityCallbacks)
            h == opportunityHistory
        IN  /\ \A i \in 1..Len(F) :
                  Cardinality({k \in 1..Len(opportunities) :
                      opportunities[k].id = F[i].id}) = 1
            /\ \A i \in 1..Len(F) :
                  \E k \in 1..Len(opportunities) : opportunities[k] = F[i]
            /\ Len(h) >= Len(F)
            /\ \A i \in 1..Len(F) : h[Len(h) - Len(F) + i] = F[i]
            /\ Len(last.calls) = Len(F) * n
            /\ \A i \in 1..Len(F) : \A k \in 1..n :
                  last.calls[(i - 1) * n + k] = [cb |-> k, id |-> F[i].id]
            /\ Len(F) = Cardinality({i \in 1..Len(last.candidates) :
                                        Admitted(last.candidates[i], last.solPrice)})

\* a scan has emitted two Opportunities to a throwing observer registered
\* before a well-behaved one
C6_Witness ==
    /\ last.op = "scanToken"
    /\ Len(last.ret) >= 2
    /\ onOpportunityCallbacks = <<"bad", "good">>

\* what a getActiveOpportunities() step returns and leaves in the map
ActiveQueryEffect ==
    LET keep == {i \in 1..Len(opportunities) : opportunities[i].expiresAt > now}
        ret == last'.ret
    IN  /\ Len(ret) = Cardinality(keep)
        /\ \A i \in keep :
              LET n == Cardinality({j \in keep : j < i}) + 1 IN
              ret[n] = opportunities[i]
        /\ opportunities' = ret
        /\ \A i \in 1..Len(opportunities) :
              (now - opportunities[i].detectedAt < opportunityTtlMs)
                  <=> (\E n \in 1..Len(ret) : ret[n] = opportunities[i])

\* C7: getActiveOpportunities at time now returns exactly the stored
\* Opportunities with expiresAt > now and leaves exactly those in the map;
\* with ttl 5000 an Opportunity detected at t is returned before t+5000 and
\* is removed at t+5000 and after.
C7_ActiveQuery ==
    [][(now' = now /\ last'.op = "getActiveOpportunities") => ActiveQueryEffect]_vars

\* a query exactly at an Opportunity's expiry has removed it and has
\* returned a younger one
C7_Witness ==
    /\ last.op = "getActiveOpportunities"
    /\ now = opportunityTtlMs
    /\ last.removed >= 1
    /\ Len(last.ret) >= 1

\* C8: an Opportunity leaves the active map only when it has expired
\* (expiresAt <= now), under every detector operation.
C8_NoRemovalWhileActive ==
    [][\A i \in 1..Len(opportunities) :
          opportunities[i].expiresAt > now =>
              \E k \in 1..Len(opportunities') : opportunities'[k] = opportunities[i]]_vars

\* C9: getHistory(limit) returns the min(limit, length) most recent
\* Opportunities in emission order, never more than limit entries.
C9_HistoryBounded ==
    last.op = "getHistory" =>
        LET n == Len(opportunityHistory)
            k == IF last.limit < n THEN last.limit ELSE n
        IN  /\ Len(last.ret) = k
            /\ \A i \in 1..k : last.ret[i] = opportunityHistory[n - k + i]

\* C10: a cyclic Opportunity uses only edges whose quote the emitting scan
\* fetched.
C10_FreshPass ==
    last.op = "scanGraph" =>
        \A i \in 1..Len(last.ret) : \A k \in 1..3 :
            last.ret[i].path[k].quote \in last.fetched

-----------------------------------------------------------------------------
(* Properties of the RiskManager *)

\* the smallest of the three size bounds of a checkTrade call
SizeBound ==
    RMin(RMin(opportunity.tradeSize, limits.maxTradeSizeSol),
         RMul(walletBalanceSol, RDiv(limits.maxPositionPercent, R(100))))

\* the eight checks in the claimed order: whether each one fails in the
\* current state, and the reason it gives
FailingChecks ==
    <<RLt(dailyPnL, RNeg(limits.dailyLossLimitUsd)),
      RLt(opportunity.spreadBps, limits.minProfitBps),
      RLt(SizeBound, Rat(1, 100)),
      RLt(limits.maxPriceImpactBps, RMul(opportunity.buyQuote.priceImpact, R(100))),
      RLt(limits.maxPriceImpactBps, RMul(opportunity.sellQuote.priceImpact, R(100))),
      RLt(limits.maxSlippageBps,
          RMul(RAdd(opportunity.buyQuote.priceImpact,
                    opportunity.sellQuote.priceImpact), R(100))),
      opportunity.buyQuote.liquidity # R(0)
          /\ RLt(opportunity.buyQuote.liquidity, limits.minLiquidityUsd),
      opportunity.sellQuote.liquidity # R(0)
          /\ RLt(opportunity.sellQuote.liquidity, limits.minLiquidityUsd)>>

CheckReasons ==
    <<"Daily loss limit reached", "Spread below minimum",
      "Trade size too small after adjustments", "Buy price impact exceeds limit",
      "Sell price impact exceeds limit", "Combined slippage too high",
      "Buy pool liquidity below minimum", "Sell pool liquidity below minimum">>

Failing == {i \in 1..8 : FailingChecks[i]}

FirstFailing == CHOOSE i \in Failing : \A j \in Failing : i <= j

\* C11: checkTrade rejects with the reason of the first failing check in the
\* order daily loss, minimum profit, size, buy impact, sell impact, combined
\* slippage, buy liquidity, sell liquidity, and passes with an adjustedSize
\* and no reason iff no check fails, whatever warnings it collected.
C11_FirstFailingCheck ==
    last.op = "checkTrade" =>
        IF Failing = {}
        THEN /\ last.ret.passed
             /\ "adjustedSize" \in DOMAIN last.ret
             /\ "reason" \notin DOMAIN last.ret
        ELSE /\ ~last.ret.passed
             /\ last.ret.reason.text = CheckReasons[FirstFailing]
             /\ "adjustedSize" \notin DOMAIN last.ret

\* a rejection for the buy leg's impact of an Opportunity that fails the
\* four later checks too, after warnings were collected
C11_Witness ==
    /\ last.op = "checkTrade"
    /\ ~last.ret.passed
    /\ last.ret.reason.text = "Buy price impact exceeds limit"
    /\ {5, 6, 7, 8} \subseteq Failing
    /\ last.ret.warnings # <<>>

\* a checkTrade result that rejects for the trade size
RejectedForSize ==
    /\ ~last.ret.passed
    /\ last.ret.reason.text = "Trade size too small after adjustments"

\* a warning that the size was clamped is among the result's warnings
ClampWarned ==
    \E i \in 1..Len(last.ret.warnings) :
        last.ret.warnings[i] \in {"Trade size capped to max",
                                  "Trade size reduced to percent of balance"}

C13_LossCeiling ==
    [][( /\ last.op = "recordTrade"
         /\ last.profitUsd = R(-60)
         /\ ~last.success
         /\ RLe(dailyPnL, R(0))
         /\ limits.dailyLossLimitUsd = R(50)
         /\ now - dailyStartTime <= dayMs
         /\ last'.op = "checkTrade" )
       => ( /\ ~last'.ret.passed
            /\ last'.ret.reason.text = "Daily loss limit reached"
            /\ RLe(R(60), last'.ret.reason.value) )]_vars

\* the ledger's counters are ordered, and dailyPnL is a sum of as many
\* recorded amounts (-60 or 30 each) as there were successful calls
LedgerConsistent ==
    /\ 0 <= failedTrades
    /\ failedTrades <= tradeCount
    /\ \E losses \in 0..(tradeCount - failedTrades) :
          dailyPnL = R(30 * (tradeCount - failedTrades - losses) - 60 * losses)

\* what a recordTrade(profitUsd, success) step does to the ledger
RecordEffect ==
    /\ tradeCount' = tradeCount + 1
    /\ dailyStartTime' = dailyStartTime
    /\ IF last'.success
       THEN /\ dailyPnL' = RAdd(dailyPnL, last'.profitUsd)
            /\ failedTrades' = failedTrades
       ELSE /\ dailyPnL' = dailyPnL
            /\ failedTrades' = failedTrades + 1

\* C14: recordTrade always adds 1 to tradeCount; on success it adds profitUsd
\* to dailyPnL and leaves failedTrades, otherwise it adds 1 to failedTrades
\* and leaves dailyPnL; so 0 <= failedTrades <= tradeCount and dailyPnL is
\* the sum of the amounts of the successful calls of the period.
C14_RecordTrade ==
    /\ []LedgerConsistent
    /\ [][last'.op = "recordTrade" => RecordEffect]_vars

\* a failed and a successful call have been recorded
C14_Witness ==
    /\ last.op = "recordTrade"
    /\ tradeCount = 2
    /\ failedTrades = 1
    /\ dailyPnL = R(-60)

\* C15: a checkTrade call more than 24h after the ledger start zeroes
\* dailyPnL, tradeCount and failedTrades and sets the ledger start to now
\* before it tests the loss ceiling, so it does not reject for the daily
\* loss; a call at most 24h after the ledger start resets nothing.
C15_DailyReset ==
    [][last'.op = "checkTrade" =>
          IF now - dailyStartTime > 24 * 60 * 60 * 1000
          THEN /\ dailyPnL' = R(0)
               /\ tradeCount' = 0
               /\ failedTrades' = 0
               /\ dailyStartTime' = now
               /\ (~last'.ret.passed =>
                      last'.ret.reason.text # "Daily loss limit reached")
          ELSE UNCHANGED <<dailyPnL, tradeCount, failedTrades, dailyStartTime>>]_vars

\* a RiskManager that has rejected for the daily loss and, a day and 1 ms
\* after its ledger started, has reset and no longer does
C15_Witness ==
    /\ last.op = "checkTrade"
    /\ now = dayMs + 1
    /\ dailyStartTime = now
    /\ dailyPnL = R(0)
    /\ tradeCount = 0
    /\ last.ret.passed

\* a checkTrade call exactly 24h after the ledger start still rejects for a
\* daily loss made before
C15_WitnessNoReset ==
    /\ last.op = "checkTrade"
    /\ now = dayMs
    /\ dailyStartTime = 0
    /\ ~last.ret.passed
    /\ last.ret.reason.text = "Daily loss limit reached"

\* C16: checkTrade and calculateOptimalSize change no field of the
\* Opportunity or of the limits, whether the check passes or rejects, and
\* checkTrade changes the ledger only when more than 24h have passed since
\* the ledger start.
C16_ReadOnly ==
    [][(last'.op \in {"checkTrade", "calculateOptimalSize"}) =>
          /\ opportunity' = opportunity
          /\ limits' = limits
          /\ (last'.op = "checkTrade" /\ now - dailyStartTime <= dayMs) =>
                UNCHANGED <<dailyPnL, tradeCount, failedTrades, dailyStartTime>>]_vars

\* calculateOptimalSize has returned less than the Opportunity's size, which
\* is still 8
C16_Witness ==
    /\ last.op = "calculateOptimalSize"
    /\ RLt(last.ret, opportunity.tradeSize)
    /\ opportunity.tradeSize = R(8)
    /\ tradeCount > 0

\* the average of the two legs' price impact
AvgImpact ==
    RDiv(RAdd(opportunity.buyQuote.priceImpact, opportunity.sellQuote.priceImpact),
         R(2))

\* C17: calculateOptimalSize returns max(0.01, c * f * g), c the smallest of
\* tradeSize, maxTradeSizeSol and walletBalance * maxPositionPercent / 100,
\* f = 0.5 for an average impact over 0.5, 0.75 for one over 0.25, else 1,
\* g = 0.5 for a spread under 1.5 * minProfitBps, else 1; the result is
\* never under 0.01.
C17_OptimalSize ==
    last.op = "calculateOptimalSize" =>
        LET f == IF RLt(Rat(1, 2), AvgImpact) THEN Rat(1, 2)
                 ELSE IF RLt(Rat(1, 4), AvgImpact) THEN Rat(3, 4) ELSE R(1)
            g == IF RLt(RMul(opportunity.spreadBps, R(2)),
                        RMul(limits.minProfitBps, R(3)))
                 THEN Rat(1, 2) ELSE R(1)
            x == RMul(RMul(SizeBound, f), g)
        IN  /\ last.ret = (IF RLt(x, Rat(1, 100)) THEN Rat(1, 100) ELSE x)
            /\ RLe(Rat(1, 100), last.ret)

\* size 1 scaled by 0.75 for an average impact of 0.3 and by 0.5 for a
\* spread of 60 bps
C17_Witness ==
    /\ last.op = "calculateOptimalSize"
    /\ AvgImpact = Rat(3, 10)
    /\ opportunity.spreadBps = R(60)
    /\ last.ret = Rat(3, 8)

\* a size under the floor is raised to 0.01
C17_WitnessFloor ==
    /\ last.op = "calculateOptimalSize"
    /\ RLt(SizeBound, Rat(1, 100))
    /\ last.ret = Rat(1, 100)

-----------------------------------------------------------------------------
(* Properties of the TradeExecutor *)

\* the execute() calls that have ended
Done == Waiting("done")

\* the call the last step belonged to has ended in that step
Finishes ==
    /\ last'.op \in {"execute", "build", "send", "confirm"}
    /\ executeCalls'[last'.call].pc = "done"
    /\ (last'.call > Len(executeCalls) \/ executeCalls[last'.call].pc # "done")

\* the failure a step met, if it met one: its text
FailureText ==
    IF last'.op = "execute" /\ executor.keypair = Null THEN "Wallet not initialized"
    ELSE IF last'.op = "build" /\ last'.answer = "null"
         THEN "Failed to build transaction"
    ELSE IF last'.op = "send" /\ last'.answer = "error" THEN "Transaction send failed"
    ELSE IF last'.op = "confirm" /\ last'.answer # "ok" THEN "Transaction not confirmed"
    ELSE "none"

\* every call that has ended has returned a TradeResult for its own
\* Opportunity, with an error text iff it did not succeed; no other call has
\* an outcome
ReturnsResult ==
    \A c \in 1..Len(executeCalls) :
        LET call == executeCalls[c] IN
        IF c \in Done
        THEN /\ DOMAIN call.outcome = {"returned"}
             /\ call.outcome.returned.opportunity = ExecOpportunity(c)
             /\ call.outcome.returned.opportunity = call.opportunity
             /\ call.outcome.returned.success
                   <=> "error" \notin DOMAIN call.outcome.returned
        ELSE call.outcome = Null

\* C18: execute never throws: when the signer lookup, the build, the direct
\* submission or the confirmation fails (a relay failure only moves on to
\* the next endpoint or to the direct submission), the call returns a
\* TradeResult with success = false and the failure's text as error, and
\* every result references the call's Opportunity.
C18_NeverThrows ==
    /\ []ReturnsResult
    /\ [][FailureText # "none" =>
            /\ Finishes
            /\ ~executeCalls'[last'.call].outcome.returned.success
            /\ executeCalls'[last'.call].outcome.returned.error = FailureText]_vars

\* a call has returned the failure of the direct submission that followed
\* five failed relay attempts
C18_Witness ==
    \E c \in Done :
        /\ Len(executeCalls[c].log) = 6
        /\ ~executeCalls[c].outcome.returned.success
        /\ executeCalls[c].outcome.returned.error = "Transaction send failed"

\* the counters add up, and count the calls that have ended
CountersAddUp ==
    /\ executor.executedTrades = executor.successfulTrades + executor.failedTrades
    /\ executor.executedTrades = Cardinality(Done)

\* the counters add up while no call is in progress
CountersAddUpWhenIdle == Done = 1..Len(executeCalls) => CountersAddUp

\* C19: every execute() call, whatever its outcome, adds exactly 1 to
\* executedTrades and to exactly one of successfulTrades and failedTrades,
\* a call without a signer and one that fails at build included; so
\* executedTrades = successfulTrades + failedTrades whenever no call is in
\* progress.
C19_Counters ==
    /\ []CountersAddUpWhenIdle
    /\ []CountersAddUp
    /\ [][IF Finishes
          THEN /\ executor'.executedTrades = executor.executedTrades + 1
               /\ \/ /\ executor'.successfulTrades = executor.successfulTrades + 1
                     /\ executor'.failedTrades = executor.failedTrades
                  \/ /\ executor'.successfulTrades = executor.successfulTrades
                     /\ executor'.failedTrades = executor.failedTrades + 1
          ELSE executor' = executor]_vars

\* two calls have ended without a signer, each one counted as executed and
\* as failed
C19_Witness ==
    /\ executor.keypair = Null
    /\ Done = {1, 2}
    /\ executor.executedTrades = 2
    /\ executor.failedTrades = 2

\* a call that failed at build and one that succeeded have been counted
C19_WitnessMixed ==
    /\ Done = {1, 2}
    /\ executor.successfulTrades = 1
    /\ \E c \in Done :
          /\ ~executeCalls[c].outcome.returned.success
          /\ executeCalls[c].outcome.returned.error = "Failed to build transaction"

\* a call's endpoint list, and whether a sequence is an initial part of another
EndpointsOf(ex) == JITO_ENDPOINTS[ex.network]
IsPrefix(a, b) == Len(a) <= Len(b) /\ \A i \in 1..Len(a) : a[i] = b[i]

\* relay mode is on and the network is mainnet-beta
RelayMode == executor.useJitoBundles /\ executor.network = "mainnet-beta"

\* the requests of every call: in relay mode the endpoints in list order and
\* the RPC node only after all of them, otherwise the RPC node only; a call
\* that waits for an endpoint has contacted it last, and a call whose
\* transaction was built has made a request
RequestsInOrder ==
    \A c \in 1..Len(executeCalls) :
        LET call == executeCalls[c] IN
        /\ IF RelayMode
           THEN IsPrefix(call.log, EndpointsOf(executor) \o <<"direct">>)
           ELSE call.log \in {<<>>, <<"direct">>}
        /\ call.pc = "relay" =>
              /\ Len(call.log) = call.endpoint
              /\ call.log[call.endpoint] = EndpointsOf(executor)[call.endpoint]
        /\ call.pc = "direct" => call.log[Len(call.log)] = "direct"
        /\ call.pc \in {"relay", "direct", "confirm"} => call.log # <<>>
        /\ call.txHash # Null => call.log # <<>>

\* what a step does to the requests of the call it belongs to
RequestStep ==
    LET c == last'.call
        log == IF c <= Len(executeCalls) THEN executeCalls[c].log ELSE <<>>
        log2 == executeCalls'[c].log
        eps == EndpointsOf(executor)
    IN  /\ \A d \in 1..Len(executeCalls) :
              d # c => executeCalls'[d].log = executeCalls[d].log
        /\ IF last'.op = "build"
           THEN IF last'.answer = "transaction"
                THEN log2 = IF RelayMode /\ eps # <<>> THEN <<eps[1]>>
                                                        ELSE <<"direct">>
                ELSE log2 = log
           ELSE IF last'.op = "relay"
           THEN IF last'.answer = "result"
                THEN log2 = log /\ executeCalls'[c].pc = "confirm"
                ELSE log2 = Append(log, IF Len(log) < Len(eps)
                                        THEN eps[Len(log) + 1] ELSE "direct")
           ELSE log2 = log

\* C20: in relay mode on mainnet-beta execute posts to the relay endpoints in
\* list order, stops at the first answer with a result field (no later
\* endpoint, no direct submission), and submits directly exactly when every
\* endpoint failed (transport error or no result field) or the list is
\* empty; otherwise it submits directly and contacts no endpoint; a built
\* transaction is always submitted.
C20_SubmissionProtocol ==
    /\ []RequestsInOrder
    /\ [][last'.op \in {"execute", "build", "relay", "send", "confirm"}
            => RequestStep]_vars

\* a call stopped at the second endpoint, another went through all five and
\* submitted directly
C20_Witness ==
    /\ RelayMode
    /\ \E c \in 1..Len(executeCalls) :
          /\ executeCalls[c].log = <<"mainnet", "amsterdam">>
          /\ executeCalls[c].pc \in {"confirm", "done"}
    /\ \E c \in 1..Len(executeCalls) :
          /\ Len(executeCalls[c].log) = 6
          /\ executeCalls[c].log[6] = "direct"

\* relay mode is on but the network is devnet: the call has submitted directly
C20_WitnessDevnet ==
    /\ executor.useJitoBundles
    /\ executor.network = "devnet"
    /\ \E c \in 1..Len(executeCalls) : executeCalls[c].log = <<"direct">>

\* the TradeResult of every call that has ended: a success carries both
\* transaction ids, equal to the id of the call's one submission, and no
\* error; a failure carries an error text and no transaction id
ResultShape ==
    \A c \in Done :
        LET call == executeCalls[c]
            r == call.outcome.returned
        IN  IF r.success
            THEN /\ {"buyTxHash", "sellTxHash"} \subseteq DOMAIN r
                 /\ "error" \notin DOMAIN r
                 /\ call.txHash = Signature
                 /\ r.buyTxHash = call.txHash
                 /\ r.sellTxHash = call.txHash
                 /\ call.log # <<>>
            ELSE /\ "error" \in DOMAIN r
                 /\ r.error \in {"Wallet not initialized", "Failed to build transaction",
                                 "Transaction send failed", "Transaction not confirmed"}
                 /\ DOMAIN r \cap {"buyTxHash", "sellTxHash"} = {}

\* a call ends with success only in the step in which its confirmation
\* reports no error
SuccessStep ==
    (Finishes /\ executeCalls'[last'.call].outcome.returned.success)
        => (last'.op = "confirm" /\ last'.answer = "ok")

\* C21: every TradeResult with success = true has buyTxHash and sellTxHash
\* both set to the id of the one submitted transaction and no error; every
\* TradeResult with success = false has error set to the message of the
\* failure and neither transaction id; success = true is set only after a
\* confirmation that reported no error.
C21_ResultShape == []ResultShape /\ [][SuccessStep]_vars

\* one call has returned a success with both ids, another the failure of its
\* confirmation
C21_Witness ==
    /\ \E c \in Done :
          /\ executeCalls[c].outcome.returned.success
          /\ executeCalls[c].outcome.returned.buyTxHash = Signature
          /\ executeCalls[c].outcome.returned.sellTxHash = Signature
    /\ \E c \in Done :
          /\ ~executeCalls[c].outcome.returned.success
          /\ executeCalls[c].outcome.returned.error = "Transaction not confirmed"

\* the calls whose confirmation has been requested hold the transaction id a
\* submission returned, and have made that submission
ConfirmAfterSubmission ==
    \A c \in Waiting("confirm") :
        /\ executeCalls[c].txHash = Signature
        /\ executeCalls[c].log # <<>>

\* what one step does to the confirmation of call c: it is requested only by
\* a submission that returned an id, its answer ends the call (with a
\* failure unless it reported no error) and adds no request, and a call
\* that has ended stays as it is
ConfirmStep(c) ==
    LET before == IF c <= Len(executeCalls) THEN executeCalls[c].pc ELSE "none"
        call2 == executeCalls'[c]
    IN  /\ (call2.pc = "confirm" /\ before # "confirm") =>
              /\ last'.call = c
              /\ \/ last'.op = "relay" /\ before = "relay" /\ last'.answer = "result"
                 \/ last'.op = "send" /\ before = "direct"
                                      /\ last'.answer = "signature"
        /\ before = "confirm" =>
              /\ call2.pc \in {"confirm", "done"}
              /\ call2.log = executeCalls[c].log
              /\ call2.pc = "done" =>
                    /\ last'.op = "confirm" /\ last'.call = c
                    /\ call2.outcome.returned.success <=> last'.answer = "ok"
                    /\ last'.answer # "ok" =>
                          call2.outcome.returned.error = "Transaction not confirmed"
        /\ (last'.op = "confirm" /\ last'.call = c) =>
              before = "confirm" /\ call2.pc = "done"
        /\ before = "done" => call2 = executeCalls[c]

\* C23: within one execute() call the confirmation is requested at most
\* once, and only after a submission returned a transaction id; a failed
\* confirmation is terminal: the call ends with a failed result, without a
\* re-submission or a second confirmation.
C23_ConfirmOnce ==
    /\ []ConfirmAfterSubmission
    /\ [][\A c \in 1..Len(executeCalls') : ConfirmStep(c)]_vars

\* a call that had submitted directly after the relay's endpoints has ended
\* with the failure of its one confirmation
C23_Witness ==
    /\ last.op = "confirm"
    /\ last.answer = "throws"
    /\ executeCalls[last.call].pc = "done"
    /\ executeCalls[last.call].log = EndpointsOf(executor) \o <<"direct">>
    /\ RelayMode
    /\ executeCalls[last.call].outcome.returned.error = "Transaction not confirmed"

\* C24: the confirmation is a bounded wait: every execute() call that waits
\* for its confirmation eventually returns a TradeResult, also when the
\* network never answers the confirmation request, because the wait ends
\* once confirmTimeoutMs has elapsed.
C24_BoundedWait ==
    \A c \in 1..MaxCalls : (c \in Waiting("confirm")) ~> (c \in Done)

-----------------------------------------------------------------------------
(* Properties of the orchestrator *)

\* the names of the calls a handleOpportunity() call has made, in order
CallNames(h) == [i \in 1..Len(handleCalls[h].calls) |-> handleCalls[h].calls[i].fn]

\* execute(opp), called without a signer, has returned before its first
\* await: a failed result saying so, and no request made
FailsFast(opp) ==
    LET e == executeStart(executor, opp, now) IN
    /\ e.call.pc = "done"
    /\ e.call.log = <<>>
    /\ e.call.txHash = Null
    /\ ~e.call.outcome.returned.success
    /\ e.call.outcome.returned.error = "Wallet not initialized"
    /\ e.executor.failedTrades = executor.failedTrades + 1

\* C22: while no signer is available, execute fails fast with a "not
\* initialized" error result without building, submitting or confirming
\* anything, and handleOpportunity never calls checkTrade, execute or
\* recordTrade for a detected Opportunity, which it still counts and notifies.
C22_DetectionOnly ==
    ~walletIsAvailable(executor) =>
        /\ \A h \in 1..Len(handleCalls) :
              /\ CallNames(h) = <<"notifyOpportunity">>
              /\ FailsFast(handleCalls[h].opportunity)
        /\ bot.opportunitiesDetected = Len(handleCalls)
        /\ Len(handleCalls) = Len(opportunityHistory)
        /\ executeCalls = <<>>
        /\ tradeCount = 0
        /\ bot.tradesExecuted = 0

\* without a signer an Opportunity has been detected, counted and notified,
\* and its handler has returned
C22_Witness ==
    /\ ~walletIsAvailable(executor)
    /\ bot.opportunitiesDetected = 1
    /\ Handles("done") = {1}
    /\ CallNames(1) = <<"notifyOpportunity">>

\* the scan passes in progress
InProgress == Passes("balance") \cup Passes("scan")

\* C25: a timer tick that fires while a scan pass is still in progress starts
\* no scan, so that at no time two scan passes of the scan loop are in
\* progress.
C25_NoOverlap == Cardinality(InProgress) <= 1

\* what a timer tick does: while the bot is paused or not running nothing at
\* all (no pass, no request, the detector untouched), otherwise it starts a pass
TickStep ==
    last'.op = "tick" =>
        IF bot.isRunning /\ ~bot.isPaused
        THEN /\ last'.started
             /\ scanPasses' = Append(scanPasses, NewPass)
        ELSE /\ ~last'.started
             /\ UNCHANGED <<scanPasses, handleCalls, bot, detectorVars, execVars,
                            riskVars>>

\* /pause and /resume write the pause flag and leave every pass as it is
PauseStep ==
    last'.op \in {"pause", "resume"} =>
        /\ scanPasses' = scanPasses
        /\ handleCalls' = handleCalls
        /\ bot' = [bot EXCEPT !.isPaused = (last'.op = "pause")]

\* the status snapshot reports isRunning = running and not paused
StatusStep ==
    last'.op = "getStatus" =>
        last'.ret.isRunning = (bot.isRunning /\ ~bot.isPaused)

\* C26: a tick that fires while the bot is paused (or not running) starts no
\* scan and fetches nothing; pausing never aborts a scan pass in progress;
\* after resume the next tick starts a scan again; the status snapshot
\* reports isRunning = running AND NOT paused.
C26_PauseGate == [][TickStep /\ PauseStep /\ StatusStep]_vars

\* a tick has been skipped while the bot was paused, and the pass in progress
\* since before the pause is still in progress
C26_Witness ==
    /\ last.op = "tick"
    /\ ~last.started
    /\ bot.isPaused
    /\ Passes("scan") = {1}
    /\ Len(scanPasses) = 1

\* a pass has ended while the bot was paused
C26_WitnessNotAborted ==
    /\ last.op = "scan"
    /\ bot.isPaused
    /\ Passes("done") = {1}

\* a tick has started the second pass, the bot not being paused
C26_WitnessResumed ==
    /\ last.op = "tick"
    /\ last.started
    /\ ~bot.isPaused
    /\ Len(scanPasses) = 2

\* the status of a paused bot has been taken
C26_WitnessStatus ==
    /\ last.op = "getStatus"
    /\ bot.isRunning
    /\ bot.isPaused
    /\ ~last.ret.isRunning

\* the calls of a handleOpportunity() call that goes through, in order
FullRun ==
    <<"notifyOpportunity", "getBalance", "checkTrade", "execute", "recordTrade",
      "notifyTrade">>

\* the TradeResult execute() returned to handler h
ResultOf(h) == executeCalls[handleCalls[h].execute].outcome.returned

\* handler h has called execute only after its one checkTrade passed, for the
\* Opportunity it was invoked with, and has followed the result with one
\* recordTrade of the estimated profit on success and of 0 on failure
ExecutesChecked(h) ==
    LET call == handleCalls[h]
        names == CallNames(h)
    IN  /\ IsPrefix(names, FullRun)
        /\ call.riskCheck = "none" <=> Len(names) < 3
        /\ call.riskCheck = "rejected" => (Len(names) = 3 /\ call.pc = "done")
        /\ call.riskCheck = "passed" <=> Len(names) >= 4
        /\ call.execute > 0 <=> Len(names) >= 4
        /\ call.execute > 0 =>
              /\ call.execute <= Len(executeCalls)
              /\ executeCalls[call.execute].opportunity = call.opportunity
              /\ call.opportunity.id = opportunityHistory[h].id
              /\ (executeCalls[call.execute].pc # "done") => call.pc = "execute"
        /\ call.pc = "execute" <=> Len(names) = 4
        /\ Len(names) >= 5 =>
              /\ call.calls[5].success = ResultOf(h).success
              /\ call.calls[5].profitUsd =
                    IF ResultOf(h).success THEN call.opportunity.estimatedProfitUsd
                                           ELSE R(0)

\* C28: the orchestrator calls execute(opp) only after checkTrade(opp,
\* balance) returned passed = true for that same Opportunity, calls
\* checkTrade at most once per emitted Opportunity, and follows every execute
\* call with exactly one recordTrade: the estimated profit with success =
\* true on success, 0 with success = false on failure.
C28_ExecuteAfterCheck ==
    /\ \A h \in 1..Len(handleCalls) : ExecutesChecked(h)
    /\ Len(handleCalls) = Len(opportunityHistory)
    /\ Len(executeCalls) = Cardinality({h \in 1..Len(handleCalls) :
                                            handleCalls[h].execute > 0})
    /\ \A h, g \in 1..Len(handleCalls) :
          (h # g /\ handleCalls[h].execute > 0)
              => handleCalls[h].execute # handleCalls[g].execute
    /\ tradeCount = Cardinality({h \in 1..Len(handleCalls) :
                                    Len(handleCalls[h].calls) >= 5})
    /\ bot.tradesExecuted = tradeCount
    /\ failedTrades = bot.tradesFailed

\* a handler has gone through with a trade that failed at its confirmation,
\* and has recorded 0 and success = false
C28_Witness ==
    /\ Handles("done") = {1}
    /\ CallNames(1) = FullRun
    /\ ResultOf(1).error = "Transaction not confirmed"
    /\ handleCalls[1].calls[5] =
          [fn |-> "recordTrade", profitUsd |-> R(0), success |-> FALSE]
    /\ failedTrades = 1

\* a handler has recorded the estimated profit of a successful trade
C28_WitnessSuccess ==
    /\ Handles("done") = {1}
    /\ CallNames(1) = FullRun
    /\ ResultOf(1).success
    /\ handleCalls[1].calls[5].profitUsd = handleCalls[1].opportunity.estimatedProfitUsd
    /\ dailyPnL = handleCalls[1].opportunity.estimatedProfitUsd
    /\ RLt(R(0), dailyPnL)

\* a handler has returned after the risk check rejected its Opportunity
C28_WitnessRejected ==
    /\ Handles("done") = {1}
    /\ handleCalls[1].riskCheck = "rejected"
    /\ CallNames(1) = <<"notifyOpportunity", "getBalance", "checkTrade">>
    /\ executeCalls = <<>>

-----------------------------------------------------------------------------
(* Properties of the scans under failing venues *)

\* the quotes of the venues that answered with one, in the order jupiter,
\* raydium, orca
Keep(answer) == IF answer = Null \/ answer = Failed THEN <<>> ELSE <<answer>>
OfSucceeding(resp) == Keep(resp.jupiter) \o Keep(resp.raydium) \o Keep(resp.orca)

\* the venues whose request was rejected
FailingIn(resp) == {v \in Venues : resp[v] = Failed}

\* C27: for every subset of venues whose quote request fails,
\* getQuotesForPair returns exactly the quotes of the venues that succeeded,
\* without raising; when every venue fails the scan returns zero
\* opportunities rather than an error.
C27_VenueIsolation ==
    /\ last.op = "getQuotesForPair" =>
          /\ last.ret = OfSucceeding(last.resp)
          /\ \A i \in 1..Len(last.ret) :
                /\ last.ret[i].dex \in Venues
                /\ last.ret[i] = last.resp[last.ret[i].dex]
    /\ last.op = "scanToken" =>
          /\ ~last.thrown
          /\ last.buyQuotes = OfSucceeding(last.buy)
          /\ last.sellQuotes = OfSucceeding(last.sell)
          /\ Len(last.buyQuotes) = 3 - Cardinality(FailingIn(last.buy))
          /\ Len(last.sellQuotes) = 3 - Cardinality(FailingIn(last.sell))
          /\ (FailingIn(last.buy) = Venues /\ FailingIn(last.sell) = Venues)
                => last.ret = <<>>

\* two venues failed on the buy leg and another on the sell leg, and the
\* scan has emitted from the quotes of the others
C27_Witness ==
    /\ last.op = "scanToken"
    /\ FailingIn(last.buy) = {"raydium", "orca"}
    /\ FailingIn(last.sell) = {"jupiter"}
    /\ last.buyQuotes = <<BuyJupiter>>
    /\ last.sellQuotes = <<SellRaydium, SellOrca>>
    /\ last.ret # <<>>

\* every venue failed on both legs, and the scan has returned no Opportunity
C27_WitnessAllFail ==
    /\ last.op = "scanToken"
    /\ FailingIn(last.buy) = Venues
    /\ FailingIn(last.sell) = Venues
    /\ last.ret = <<>>
    /\ ~last.thrown

\* getQuotesForPair has returned the one quote left by a rejected and an
\* empty answer
C27_WitnessOne ==
    /\ last.op = "getQuotesForPair"
    /\ last.resp = [jupiter |-> Failed, raydium |-> BuyRaydium, orca |-> Null]
    /\ last.ret = <<BuyRaydium>>

-----------------------------------------------------------------------------
(* Properties of the scans of both modes *)

\* the gas estimate of a scan mode in SOL, and the net profit of an
\* Opportunity computed from its own fields: the spot price is
\* tradeSizeUsd / tradeSize
GasOf(opp) == IF opp.isTriangular THEN Rat(3, 1000) ELSE Rat(1, 1000)
NetOf(opp) ==
    RSub(RMul(RDiv(opp.spreadBps, R(10000)), opp.tradeSizeUsd),
         RMul(GasOf(opp), RDiv(opp.tradeSizeUsd, opp.tradeSize)))

\* the Opportunity has a strictly positive net profit, the one its fields give
Profitable(opp) ==
    /\ RLt(R(0), opp.estimatedProfitUsd)
    /\ opp.estimatedProfitUsd = NetOf(opp)

\* every Opportunity of the active map, of the history and of the last
\* scan's result is profitable, and every observer invocation of the last
\* scan was made for an Opportunity of its result
AllProfitable ==
    /\ \A i \in 1..Len(opportunities) : Profitable(opportunities[i])
    /\ \A i \in 1..Len(opportunityHistory) : Profitable(opportunityHistory[i])
    /\ last.op \in {"scanToken", "scanGraph"} =>
          /\ \A i \in 1..Len(last.ret) : Profitable(last.ret[i])
          /\ \A i \in 1..Len(last.calls) :
                \E j \in 1..Len(last.ret) : last.ret[j].id = last.calls[i].id

\* a pairwise scan under a spot price of 0 inserts, appends and notifies nothing
ZeroPriceStep ==
    (last'.op = "scanToken" /\ last'.solPrice = R(0)) =>
        /\ last'.ret = <<>>
        /\ last'.calls = <<>>
        /\ opportunities' = opportunities
        /\ opportunityHistory' = opportunityHistory
        /\ nextId' = nextId

\* C29: every Opportunity emitted by either scan mode has a strictly positive
\* net profit estimatedProfitUsd = (spreadBps / 10000) * tradeSizeUsd -
\* gasCostUsd; a candidate whose net profit is <= 0, which includes every
\* pairwise candidate while the spot price is 0, is never inserted, appended
\* or notified.
C29_PositiveNet == []AllProfitable /\ [][ZeroPriceStep]_vars

\* both modes have emitted, and an observer has been notified of the cyclic
\* Opportunity
C29_Witness ==
    /\ \E i \in 1..Len(opportunityHistory) : opportunityHistory[i].isTriangular
    /\ \E i \in 1..Len(opportunityHistory) : ~opportunityHistory[i].isTriangular
    /\ last.op = "scanGraph"
    /\ last.ret # <<>>
    /\ last.calls # <<>>

\* a pairwise scan under a spot price of 0 has dropped its candidates, which
\* pass the filters
C29_WitnessZeroPrice ==
    /\ last.op = "scanToken"
    /\ last.solPrice = R(0)
    /\ \E i \in 1..Len(last.candidates) :
          passesFilters(last.candidates[i].buyQuote, last.candidates[i].sellQuote,
                        last.candidates[i].spreadBps)
    /\ last.ret = <<>>

\* a cyclic scan under a spot price of 0 has emitted at the price of 20
C29_WitnessFallback ==
    /\ last.op = "scanGraph"
    /\ \E i \in 1..Len(last.ret) : last.ret[i].tradeSizeUsd = R(20)

-----------------------------------------------------------------------------
(* Properties of the cyclic scan's fetch phase *)

\* the tokens of the call, as a set
FetchTokenSet == {fetch.tokens[i] : i \in 1..Len(fetch.tokens)}

FetchSerial ==
    /\ \A r \in fetch.inFlight : r.pair = fetch.n
    /\ Cardinality(fetch.inFlight) <= 3
    /\ fetch.inFlight # {} <=> fetch.pc = "fetch"
    /\ Len(fetch.issued) <= Len(fetch.pairs)
    /\ fetch.issued = SubSeq(fetch.pairs, 1, Len(fetch.issued))
    /\ Len(fetch.issued) = IF fetch.pc = "fetch" THEN fetch.n
                           ELSE IF fetch.pc = "idle" THEN 0 ELSE fetch.n - 1
    /\ fetch.pc = "done" =>
          /\ Len(fetch.issued) = Len(fetch.tokens) * (Len(fetch.tokens) - 1)
          /\ \A a, b \in FetchTokenSet :
                Cardinality({i \in 1..Len(fetch.issued) :
                                fetch.issued[i] = [from |-> a, to |-> b]})
                    = IF a = b THEN 0 ELSE 1

\* requests are sent only when the delay has elapsed and none is in flight,
\* and the end of a pair's fetch leads to the next pair's delay or, after
\* the last pair, to the end, whatever the venues answered
FetchStep ==
    /\ (fetch'.inFlight \ fetch.inFlight # {}) =>
          /\ fetch.pc = "delay"
          /\ fetch.inFlight = {}
          /\ last'.op = "issue"
          /\ fetch'.n = fetch.n
    /\ (fetch.pc = "fetch" /\ fetch'.pc # "fetch") =>
          /\ fetch'.n = fetch.n + 1
          /\ fetch'.pc = IF fetch.n < Len(fetch.pairs) THEN "delay" ELSE "done"

C38_DistinctAssets ==
    last.op = "findTriangles" =>
        \A n \in 1..Len(last.ret) :
            LET A == last.ret[n].path[1].to
                B == last.ret[n].path[2].to
            IN  /\ A # last.startToken
                /\ B # last.startToken
                /\ A # B

-----------------------------------------------------------------------------
(* Properties of the cyclic Opportunity *)

\* the cyclic Opportunity opp reports the cycle tri
ReportsCycle(opp, tri) ==
    /\ opp.buyDex = tri.path[1].dex
    /\ opp.buyPrice = tri.path[1].price
    /\ opp.buyQuote = tri.path[1].quote
    /\ opp.sellDex = tri.path[3].dex
    /\ opp.sellPrice = tri.path[3].price
    /\ opp.sellQuote = tri.path[3].quote
    /\ opp.spreadBps = tri.profitBps
    /\ \A k \in 1..3 :
          /\ opp.path[k].to = tri.path[k].to
          /\ opp.path[k].dex = tri.path[k].dex
          /\ opp.path[k].quote = tri.path[k].quote

\* the three legs form a closed chain over the base asset
ClosedChain(path) ==
    /\ Len(path) = 3
    /\ path[1].from = SOL
    /\ path[2].from = path[1].to
    /\ path[3].from = path[2].to
    /\ path[3].to = SOL

\* C32: every Opportunity scanGraph emits is flagged cyclic, takes its buy
\* venue, price and quote from the first edge and its sell venue, price and
\* quote from the third edge of a cycle findTriangles reported, has that
\* cycle's profitBps as spreadBps, and keeps a path of exactly 3 legs that
\* starts at the base asset, chains from = previous to, and ends at the
\* base asset.
C32_CyclicOpportunity ==
    last.op = "scanGraph" =>
        \A n \in 1..Len(last.ret) :
            LET opp == last.ret[n] IN
            /\ opp.isTriangular
            /\ ClosedChain(opp.path)
            /\ \E i \in 1..Len(last.triangles) : ReportsCycle(opp, last.triangles[i])

\* one scan has emitted two cyclic Opportunities that sell on different
\* venues, the first buying and selling on venues that differ from the
\* middle leg's
C32_Witness ==
    /\ last.op = "scanGraph"
    /\ Len(last.ret) = 2
    /\ last.ret[1].sellDex # last.ret[2].sellDex
    /\ last.ret[1].path[2].dex # last.ret[1].buyDex
    /\ last.ret[1].path[2].to # SOL

-----------------------------------------------------------------------------
(* Properties of the sizing heuristic *)

\* C40: calculateOptimalSize never returns more than the position clamp
\* min(tradeSize, maxTradeSizeSol, walletBalance * maxPositionPercent / 100),
\* also when that clamp is below the dust floor 0.01.
C40_NeverAboveClamp ==
    last.op = "calculateOptimalSize" => RLe(last.ret, SizeBound)

\* C40, as the code has it: calculateOptimalSize returns at most the larger
\* of the position clamp and the dust floor 0.01: at most the clamp when
\* the clamp is 0.01 or more, and exactly 0.01 when the clamp is below it.
C40_ClampOrFloor ==
    last.op = "calculateOptimalSize" =>
        /\ RLe(Rat(1, 100), SizeBound) => RLe(last.ret, SizeBound)
        /\ RLt(SizeBound, Rat(1, 100)) => last.ret = Rat(1, 100)

\* a clamp of 1 that no scaling lowers is returned as it is
C40_Witness ==
    /\ last.op = "calculateOptimalSize"
    /\ SizeBound = R(1)
    /\ last.ret = R(1)

\* a wallet of 0.01 gives a clamp of 0.005, under the floor, and 0.01 is
\* returned
C40_WitnessDust ==
    /\ last.op = "calculateOptimalSize"
    /\ walletBalanceSol = Rat(1, 100)
    /\ SizeBound = Rat(1, 200)
    /\ last.ret = Rat(1, 100)

-----------------------------------------------------------------------------
(* Properties of the RiskManager on cyclic Opportunities *)

\* a leg the per-leg limits rule out: a price impact above maxPriceImpactBps
\* or a known liquidity below minLiquidityUsd
LegOverLimits(leg) ==
    \/ RLt(limits.maxPriceImpactBps, impactBps(leg.quote))
    \/ /\ RLt(R(0), leg.quote.liquidity)
       /\ RLt(leg.quote.liquidity, limits.minLiquidityUsd)

\* C39: checkTrade rejects a cyclic Opportunity whenever any of its three
\* legs, the middle one included, has a price impact above
\* maxPriceImpactBps or a known liquidity below minLiquidityUsd.
C39_AllLegsChecked ==
    (last.op = "checkTrade" /\ opportunity.isTriangular) =>
        ((\E k \in 1..3 : LegOverLimits(opportunity.path[k])) => ~last.ret.passed)

-----------------------------------------------------------------------------
(* Properties of the built transaction *)

\* the transaction of call c carries the relay's tip
CarriesTip(c) ==
    \E i \in 1..Len(executeCalls[c].transaction) :
        executeCalls[c].transaction[i] = "jitoTip"

\* C37: a built transaction carries the relay's tip only when it is routed
\* through the relay, i.e. relay mode is enabled and the network has relay
\* endpoints; a transaction submitted directly because the network has no
\* relay never carries a tip.
C37_TipOnlyOnRelay ==
    \A c \in 1..Len(executeCalls) :
        CarriesTip(c) =>
            /\ executor.useJitoBundles
            /\ Len(JITO_ENDPOINTS[executor.network]) > 0

-----------------------------------------------------------------------------
(* Properties of the orchestrator's handler *)

\* C33: an Opportunity is handed to execute() only while it is active: at
\* the moment of the call, now < opp.expiresAt.
C33_ExecuteWhileActive ==
    \A c \in 1..Len(executeCalls) :
        isActive(executeCalls[c].opportunity, executeCalls[c].startTime)

\* the execute() calls that have not returned
ExecutesInFlight == {c \in 1..Len(executeCalls) : executeCalls[c].pc # "done"}

\* C34: at most one execute() call is in flight at any time: the handling of
\* one Opportunity (risk check, execute, recordTrade) completes before the
\* risk check of the next begins.
C34_OneExecuteInFlight ==
    /\ Cardinality(ExecutesInFlight) <= 1
    /\ Cardinality(Handles("execute")) <= 1

\* C35: the trade handed to execute() after a passing checkTrade has a size
\* no larger than that check's adjustedSize, the smallest of tradeSize,
\* maxTradeSizeSol and walletBalance * maxPositionPercent / 100.
C35_ApprovedSizeExecuted ==
    (last.op = "checked" /\ handleCalls[last.handle].riskCheck = "passed") =>
        RLe(executeCalls[handleCalls[last.handle].execute].opportunity.tradeSize,
            SizeBound)

\* the checkTrade of a handler's step is not rejected for the daily loss
NoDailyLossRejection ==
    (last'.op = "checked" /\ handleCalls' # handleCalls) =>
        LET ret == checkTrade(ledgerNow, limits, handleCalls[last'.handle].opportunity,
                              walletBalanceSol', now).ret
        IN  ret.passed \/ ret.reason.text # "Daily loss limit reached"

\* what the handler books after execute: the estimate, which is positive, on
\* success, and nothing on failure
BooksEstimateOrNothing ==
    (last'.op = "executed" /\ handleCalls' # handleCalls) =>
        LET call == handleCalls[last'.handle]
            result == executeCalls[call.execute].outcome.returned
        IN  /\ RLt(R(0), call.opportunity.estimatedProfitUsd)
            /\ dailyPnL' = IF result.success
                           THEN RAdd(dailyPnL, call.opportunity.estimatedProfitUsd)
                           ELSE dailyPnL

\* C36: in the orchestrated system the RiskManager's dailyPnL is never
\* negative: the handler books the estimated profit (> 0) of a successful
\* trade and nothing for a failed one, and no checkTrade is rejected for the
\* daily loss ceiling.
C36_PnLNeverNegative ==
    /\ []RLe(R(0), dailyPnL)
    /\ [][NoDailyLossRejection /\ BooksEstimateOrNothing]_vars

\* a risk check made after a trade has succeeded and its estimate is booked
C36_Witness ==
    /\ last.op = "checked"
    /\ last.handle = 2
    /\ tradeCount = 1
    /\ RLt(R(0), dailyPnL)

\* one trade has succeeded and one has failed
C36_WitnessMixed ==
    /\ tradeCount = 2
    /\ failedTrades = 1
    /\ RLt(R(0), dailyPnL)

\* a risk check made while an earlier trade's execute has not returned
C36_WitnessOverlap ==
    /\ last.op = "checked"
    /\ Len(executeCalls) = 2
    /\ executeCalls[1].pc # "done"

-----------------------------------------------------------------------------
(* Properties of the batched scan *)

\* the passes of the scanTokens() call that have inserted into the map and
\* the history
Writers == {k \in 1..Len(scanCall.passes) : scanCall.passes[k].found # <<>>}

\* the handlers that have had their risk check pass and have not yet
\* recorded their trade in the ledger
LedgerWriters == Handles("execute")

\* C31: no core resource has concurrent writers: no two scanToken passes of a
\* scanTokens call that insert into the active map and the history are in
\* progress at once (the concurrent fetches are joined before any write),
\* and no two handlers are between the risk check and the ledger entry of
\* their trade at once.
C31_NoConcurrentWriters ==
    /\ \A p, q \in Writers : q \notin scanCall.passes[p].beside
    /\ Cardinality(LedgerWriters) <= 1

====
